---- MODULE Spec2Model ----
(***************************************************************************)
(* Power-state tracking (Utils.cpp) and the PSU polling sensor            *)
(* (psu/PSUSensor.cpp) of dbus-sensors, as one state machine over a       *)
(* single-threaded asio io_context.                                        *)
(*                                                                         *)
(* Asynchronous operations follow asio: an operation is first pending     *)
(* (in the timer queue / in flight in the kernel), then completed and     *)
(* queued as a ready handler with its error code fixed, then invoked.     *)
(* cancel()/close() reach pending operations only; a handler that is      *)
(* already queued keeps the error code it was queued with.                *)
(***************************************************************************)
EXTENDS Integers, Sequences, FiniteSets, Bags, TLC

\* ------------------------------------------------------------------ bounds
\* Seconds that one Tick lets pass at most.
TimeStep == 5
\* Handlers of one timer or file that may sit in the ready queue at once.
MaxQueued == 1
\* Reads of the input file in flight or completed and not yet handled.
MaxReads == 2
\* Bytes of a read payload.
MaxLen == 2
\* The error counter stops the model here.
MaxErr == 1

\* ------------------------------------------------------- program constants
\* expires_after(std::chrono::seconds(10)) of the debounce timers.
DebounceSec == 10

\* ------------------------------------------------------------------ domains
\* Slots whose host and chassis objects the mapper returns at setup.
Slots == {0, 1}
\* Slots a sensor may be configured with: slot 2 has no discovered object.
QuerySlots == Slots \cup {2}

\* Object paths: the prefix and the trailing slot numeral.
HostPath(slot) == <<"host", slot>>
ChassisPath(slot) == <<"chassis", slot>>

\* Property values are dotted names, kept as their sequence of components.
PowerValues == { <<"HostState", "Running">>, <<"HostState", "Off">>,
                 <<"HostState", "TransitioningToRunning">> }
ChassisValues == { <<"PowerState", "On">>, <<"PowerState", "Off">> }
PostValues == { <<"Inactive">>, <<"OSStatus", "Inactive">>,
                <<"OSStatus", "Standby">>, <<"Other", "Inactive">> }

\* std::string::ends_with on the last dotted component.
EndsWith(value, suffix) == Len(value) > 0 /\ value[Len(value)] = suffix

Min(a, b) == IF a <= b THEN a ELSE b

\* ---------------------------------------------------------------- variables
VARIABLES
    powerStatusOn,          \* vector<pair<path, bool>>
    biosHasPost,            \* vector<pair<path, bool>>
    chassisStatusOn,        \* vector<pair<path, bool>>
    powerMatchVec,          \* vector<pair<path, match>>: the paths
    postMatchVec,
    chassisMatchVec,
    timerVec,               \* host path -> debounce timer
    timerChassisStatusVec,  \* chassis path -> debounce timer
    sinceSignal,            \* history: seconds since the last state signal of a path
    lastStep,               \* history: the step taken last
    callbacks,              \* history: hostStatusCallback calls of the last step
    sensor,                 \* the PSUSensor object and its asynchronous operations
    started,                \* history: the first setupRead() call was made
    deactivated,            \* history: deactivate() returned and no activate() since
    gone,                   \* history: a read ended device-gone and no activate() since
    published,              \* history: values the last step published
    refresh,                \* the getPowerStatus/getPostStatus/getChassisStatus chains under way
    crashed,                \* an exception left setupPowerMatchCallback
    discovery,              \* history: what the setup call was given by the mapper
    lastReport              \* history: path -> the state its last report gave

trackerVars == <<powerStatusOn, biosHasPost, chassisStatusOn, powerMatchVec,
                 postMatchVec, chassisMatchVec, timerVec, timerChassisStatusVec,
                 sinceSignal, lastStep, callbacks>>

sensorVars == <<sensor, started, deactivated, gone, published>>

setupVars == <<refresh, crashed, discovery>>

vars == <<trackerVars, sensorVars, setupVars, lastReport>>

\* ------------------------------------------------------------ asio timers
\* A steady_timer: the wait in the timer queue (armed, remaining seconds) and
\* its completed waits queued for invocation, by error code.
IdleTimer == [armed |-> FALSE, remaining |-> 0, readyOk |-> 0, readyAborted |-> 0]

\* steady_timer::cancel(): the pending wait completes with operation_aborted.
TimerCancel(t) ==
    IF t.armed
    THEN [t EXCEPT !.armed = FALSE, !.remaining = 0, !.readyAborted = @ + 1]
    ELSE t

\* expires_after(d) cancels the pending wait; async_wait arms the new one.
TimerRearm(t, d) == [TimerCancel(t) EXCEPT !.armed = TRUE, !.remaining = d]

\* The reactor finds the wait expired and queues its handler with success.
TimerExpired(t) == [t EXCEPT !.armed = FALSE, !.remaining = 0, !.readyOk = @ + 1]

PendingDebounces(t) == (IF t.armed THEN 1 ELSE 0) + t.readyOk

\* ----------------------------------------------------- power state caches
RECURSIVE FindByPath(_, _, _)
FindByPath(vec, path, i) ==
    IF i > Len(vec) THEN 0
    ELSE IF vec[i].first = path THEN i
    ELSE FindByPath(vec, path, i + 1)

\* std::find_if over the vector; 0 stands for end().
findPowerStateByPath(path, powerStatus) == FindByPath(powerStatus, path, 1)

findPowerMatchByPath(path, powerMatch) == FindByPath(powerMatch, path, 1)

\* The queries return a boolean or throw std::runtime_error.
Returns(v) == [throws |-> FALSE, value |-> v]
Throws == [throws |-> TRUE, value |-> FALSE]

\* Variant of isPowerOn that answers false where no match was created.
isPowerOn_FalseWhenMissing(slotId) ==
    LET path == HostPath(slotId)
        it == findPowerStateByPath(path, powerStatusOn)
    IN  IF findPowerMatchByPath(path, powerMatchVec) = 0 THEN Returns(FALSE)
        ELSE IF it = 0 THEN Returns(FALSE)
        ELSE Returns(powerStatusOn[it].second)

isPowerOn(slotId) ==
    LET path == HostPath(slotId)
        it == findPowerStateByPath(path, powerStatusOn)
    IN  IF findPowerMatchByPath(path, powerMatchVec) = 0 THEN Throws
        ELSE IF it = 0 THEN Returns(FALSE)
        ELSE Returns(powerStatusOn[it].second)

hasBiosPost(slotId) ==
    LET path == HostPath(slotId)
        it == findPowerStateByPath(path, biosHasPost)
    IN  IF findPowerMatchByPath(path, postMatchVec) = 0 THEN Throws
        ELSE IF it = 0 THEN Returns(FALSE)
        ELSE Returns(biosHasPost[it].second)

\* Variant of isChassisOn that looks the slot up among the host-power caches.
isChassisOn_HostCache(slotId) ==
    LET path == HostPath(slotId)
        it == findPowerStateByPath(path, powerStatusOn)
    IN  IF findPowerMatchByPath(path, powerMatchVec) = 0 THEN Throws
        ELSE IF it = 0 THEN Returns(FALSE)
        ELSE Returns(powerStatusOn[it].second)

isChassisOn(slotId) ==
    LET path == ChassisPath(slotId)
        it == findPowerStateByPath(path, chassisStatusOn)
    IN  IF findPowerMatchByPath(path, chassisMatchVec) = 0 THEN Throws
        ELSE IF it = 0 THEN Returns(FALSE)
        ELSE Returns(chassisStatusOn[it].second)

PowerStates == {"on", "biosPost", "chassisOn", "always"}

\* Variant of readingStateGood whose biosPost case asks for POST alone.
readingStateGood_PostOnly(powerState, slotId) ==
    IF powerState = "on"
    THEN (IF isPowerOn(slotId).throws THEN Throws
          ELSE Returns(isPowerOn(slotId).value))
    ELSE IF powerState = "biosPost"
    THEN (IF hasBiosPost(slotId).throws THEN Throws
          ELSE Returns(hasBiosPost(slotId).value))
    ELSE IF powerState = "chassisOn"
    THEN (IF isChassisOn(slotId).throws THEN Throws
          ELSE Returns(isChassisOn(slotId).value))
    ELSE Returns(TRUE)

\* C++ evaluates left to right (|| short-circuits) and stops at the first throw.
readingStateGood(powerState, slotId) ==
    IF powerState = "on"
    THEN (IF isPowerOn(slotId).throws THEN Throws
          ELSE Returns(isPowerOn(slotId).value))
    ELSE IF powerState = "biosPost"
    THEN (IF hasBiosPost(slotId).throws THEN Throws
          ELSE IF ~hasBiosPost(slotId).value THEN Returns(FALSE)
          ELSE IF isPowerOn(slotId).throws THEN Throws
          ELSE Returns(isPowerOn(slotId).value))
    ELSE IF powerState = "chassisOn"
    THEN (IF isChassisOn(slotId).throws THEN Throws
          ELSE Returns(isChassisOn(slotId).value))
    ELSE Returns(TRUE)

\* it->second = state, through the iterator findPowerStateByPath returned.
\* Variant that writes the state to every entry of the vector.
SetSecond_AllEntries(vec, it, state) ==
    [i \in DOMAIN vec |-> [vec[i] EXCEPT !.second = state]]

SetSecond(vec, it, state) ==
    IF it = 0 THEN vec ELSE [vec EXCEPT ![it].second = state]

\* ------------------------------------------------------------ history help
NoStep == [op |-> "none", path |-> <<>>, on |-> FALSE, ec |-> "none",
           since |-> 0, pendingBefore |-> 0, issued |-> FALSE, armed |-> FALSE,
           bytesRead |-> 0, payload |-> <<>>, kind |-> "none", slot |-> 0,
           retries |-> 0, attempts |-> 0, events |-> <<>>, subtree |-> <<>>,
           changed |-> FALSE]

Callback(type, state) == [type |-> type, state |-> state]

\* ------------------------------------------------------------------ Init
\* The state setupPowerMatchCallback leaves: one cache entry, one match and
\* one debounce timer per discovered path, every cached state false.
RECURSIVE SortedSlots(_)
SortedSlots(slots) ==
    IF slots = {} THEN <<>>
    ELSE LET s == CHOOSE x \in slots : \A y \in slots : x <= y
         IN  <<s>> \o SortedSlots(slots \ {s})

HostPaths == [i \in 1..Cardinality(Slots) |-> HostPath(SortedSlots(Slots)[i])]
ChassisPaths == [i \in 1..Cardinality(Slots) |-> ChassisPath(SortedSlots(Slots)[i])]
HostPathSet == {HostPaths[i] : i \in 1..Len(HostPaths)}
ChassisPathSet == {ChassisPaths[i] : i \in 1..Len(ChassisPaths)}

StatePairs(paths) == [i \in 1..Len(paths) |-> [first |-> paths[i], second |-> FALSE]]
MatchPairs(paths) == [i \in 1..Len(paths) |-> [first |-> paths[i]]]

\* chains: the refresh queries of the setup that are still unanswered.
TrackerRefreshing(hostPower, chains) ==
    /\ powerStatusOn = hostPower
    /\ biosHasPost = StatePairs(HostPaths)
    /\ chassisStatusOn = StatePairs(ChassisPaths)
    /\ powerMatchVec = MatchPairs(HostPaths)
    /\ postMatchVec = MatchPairs(HostPaths)
    /\ chassisMatchVec = MatchPairs(ChassisPaths)
    /\ timerVec = [p \in HostPathSet |-> IdleTimer]
    /\ timerChassisStatusVec = [p \in ChassisPathSet |-> IdleTimer]
    /\ sinceSignal = [p \in HostPathSet \cup ChassisPathSet |-> DebounceSec]
    /\ lastStep = NoStep
    /\ callbacks = <<>>
    /\ refresh = chains
    /\ lastReport = <<>>
    /\ crashed = FALSE
    /\ discovery = [called |-> TRUE,
                    host |-> [ok |-> TRUE, paths |-> HostPaths],
                    chassis |-> [ok |-> TRUE, paths |-> ChassisPaths],
                    calls |-> 1,
                    timers |-> Len(HostPaths) + Len(ChassisPaths)]

TrackerInitial(hostPower) == TrackerRefreshing(hostPower, EmptyBag)

\* ------------------------------------------------- property-changed signals
\* The host power match handler.  present: the signal carries CurrentHostState.
PowerMatchHandler(slot, present, value) ==
    LET path == HostPath(slot)
        timer == timerVec[path]
        on == EndsWith(value, "Running")
        it == findPowerStateByPath(path, powerStatusOn)
    IN  /\ findPowerMatchByPath(path, powerMatchVec) # 0
        /\ timer.armed => timer.readyAborted < MaxQueued
        /\ lastStep' = [NoStep EXCEPT !.op = IF present THEN "powerSignal" ELSE "otherSignal",
                                      !.path = path, !.on = present /\ on,
                                      !.pendingBefore = PendingDebounces(timer)]
        /\ IF ~present
           THEN /\ callbacks' = <<>>
                /\ UNCHANGED <<powerStatusOn, timerVec, sinceSignal>>
           ELSE /\ sinceSignal' = [sinceSignal EXCEPT ![path] = 0]
                /\ IF ~on
                   THEN /\ timerVec' = [timerVec EXCEPT ![path] = TimerCancel(timer)]
                        /\ powerStatusOn' = SetSecond(powerStatusOn, it, FALSE)
                        /\ callbacks' = <<Callback("on", FALSE)>>
                   ELSE /\ timerVec' = [timerVec EXCEPT ![path] = TimerRearm(timer, DebounceSec)]
                        /\ callbacks' = <<>>
                        /\ UNCHANGED powerStatusOn
        /\ UNCHANGED <<biosHasPost, chassisStatusOn, powerMatchVec, postMatchVec,
                       chassisMatchVec, timerChassisStatusVec>>

\* The wait handler of the host debounce timer, invoked with its error code.
PowerDebounceHandler(slot, ec) ==
    LET path == HostPath(slot)
        timer == timerVec[path]
        it == findPowerStateByPath(path, powerStatusOn)
    IN  /\ path \in DOMAIN timerVec
        /\ lastStep' = [NoStep EXCEPT !.op = "powerDebounce", !.path = path, !.ec = ec,
                                      !.since = sinceSignal[path],
                                      !.pendingBefore = PendingDebounces(timer)]
        /\ IF ec = "aborted"
           THEN /\ timer.readyAborted > 0
                /\ timerVec' = [timerVec EXCEPT ![path].readyAborted = @ - 1]
                /\ callbacks' = <<>>
                /\ UNCHANGED powerStatusOn
           ELSE /\ timer.readyOk > 0
                /\ timerVec' = [timerVec EXCEPT ![path].readyOk = @ - 1]
                /\ powerStatusOn' = SetSecond(powerStatusOn, it, TRUE)
                /\ callbacks' = <<Callback("on", TRUE)>>
        /\ UNCHANGED <<biosHasPost, chassisStatusOn, powerMatchVec, postMatchVec,
                       chassisMatchVec, timerChassisStatusVec, sinceSignal>>

\* The chassis match handler.  present: the signal carries CurrentPowerState.
ChassisMatchHandler(slot, present, value) ==
    LET path == ChassisPath(slot)
        timer == timerChassisStatusVec[path]
        on == EndsWith(value, "On")
        it == findPowerStateByPath(path, chassisStatusOn)
    IN  /\ findPowerMatchByPath(path, chassisMatchVec) # 0
        /\ timer.armed => timer.readyAborted < MaxQueued
        /\ lastStep' = [NoStep EXCEPT !.op = IF present THEN "chassisSignal" ELSE "otherSignal",
                                      !.path = path, !.on = present /\ on,
                                      !.pendingBefore = PendingDebounces(timer)]
        /\ IF ~present
           THEN /\ callbacks' = <<>>
                /\ UNCHANGED <<chassisStatusOn, timerChassisStatusVec, sinceSignal>>
           ELSE /\ sinceSignal' = [sinceSignal EXCEPT ![path] = 0]
                /\ IF ~on
                   THEN /\ timerChassisStatusVec' =
                               [timerChassisStatusVec EXCEPT ![path] = TimerCancel(timer)]
                        /\ chassisStatusOn' = SetSecond(chassisStatusOn, it, FALSE)
                        /\ callbacks' = <<Callback("chassisOn", FALSE)>>
                   ELSE /\ timerChassisStatusVec' =
                               [timerChassisStatusVec EXCEPT
                                   ![path] = TimerRearm(timer, DebounceSec)]
                        /\ callbacks' = <<>>
                        /\ UNCHANGED chassisStatusOn
        /\ UNCHANGED <<powerStatusOn, biosHasPost, powerMatchVec, postMatchVec,
                       chassisMatchVec, timerVec>>

\* The wait handler of the chassis debounce timer, invoked with its error code.
ChassisDebounceHandler(slot, ec) ==
    LET path == ChassisPath(slot)
        timer == timerChassisStatusVec[path]
        it == findPowerStateByPath(path, chassisStatusOn)
    IN  /\ path \in DOMAIN timerChassisStatusVec
        /\ lastStep' = [NoStep EXCEPT !.op = "chassisDebounce", !.path = path, !.ec = ec,
                                      !.since = sinceSignal[path],
                                      !.pendingBefore = PendingDebounces(timer)]
        /\ IF ec = "aborted"
           THEN /\ timer.readyAborted > 0
                /\ timerChassisStatusVec' =
                       [timerChassisStatusVec EXCEPT ![path].readyAborted = @ - 1]
                /\ callbacks' = <<>>
                /\ UNCHANGED chassisStatusOn
           ELSE /\ timer.readyOk > 0
                /\ timerChassisStatusVec' =
                       [timerChassisStatusVec EXCEPT ![path].readyOk = @ - 1]
                /\ chassisStatusOn' = SetSecond(chassisStatusOn, it, TRUE)
                /\ callbacks' = <<Callback("chassisOn", TRUE)>>
        /\ UNCHANGED <<powerStatusOn, biosHasPost, powerMatchVec, postMatchVec,
                       chassisMatchVec, timerVec, sinceSignal>>

\* The POST match handler.  present: the signal carries OperatingSystemState.
PostMatchHandler(slot, present, value) ==
    LET path == HostPath(slot)
        it == findPowerStateByPath(path, biosHasPost)
        active == value # <<"Inactive">> /\ value # <<"OSStatus", "Inactive">>
    IN  /\ findPowerMatchByPath(path, postMatchVec) # 0
        /\ lastStep' = [NoStep EXCEPT !.op = IF present THEN "postSignal" ELSE "otherSignal",
                                      !.path = path, !.on = present /\ active]
        /\ IF ~present
           THEN /\ callbacks' = <<>>
                /\ UNCHANGED biosHasPost
           ELSE /\ biosHasPost' = SetSecond(biosHasPost, it, active)
                /\ callbacks' = <<Callback("biosPost", active)>>
        /\ UNCHANGED <<powerStatusOn, chassisStatusOn, powerMatchVec, postMatchVec,
                       chassisMatchVec, timerVec, timerChassisStatusVec, sinceSignal>>

\* ------------------------------------------------------------ the reactor
\* The io_context finds a debounce wait expired and queues its handler.
DebounceExpire(path) ==
    /\ lastStep' = [NoStep EXCEPT !.op = "expire", !.path = path]
    /\ callbacks' = <<>>
    /\ \/ /\ path \in DOMAIN timerVec
          /\ timerVec[path].armed /\ timerVec[path].remaining = 0
          /\ timerVec' = [timerVec EXCEPT ![path] = TimerExpired(@)]
          /\ UNCHANGED timerChassisStatusVec
       \/ /\ path \in DOMAIN timerChassisStatusVec
          /\ timerChassisStatusVec[path].armed
          /\ timerChassisStatusVec[path].remaining = 0
          /\ timerChassisStatusVec' = [timerChassisStatusVec EXCEPT ![path] = TimerExpired(@)]
          /\ UNCHANGED timerVec
    /\ UNCHANGED <<powerStatusOn, biosHasPost, chassisStatusOn, powerMatchVec,
                   postMatchVec, chassisMatchVec, sinceSignal>>

DebounceTimers ==
    {timerVec[p] : p \in DOMAIN timerVec}
        \cup {timerChassisStatusVec[p] : p \in DOMAIN timerChassisStatusVec}

RECURSIVE MinRemaining(_, _)
MinRemaining(timers, least) ==
    IF timers = {} THEN least
    ELSE LET t == CHOOSE x \in timers : TRUE
         IN  MinRemaining(timers \ {t},
                          IF t.armed THEN Min(least, t.remaining) ELSE least)

\* Time passes: handlers take no time, so none is queued while it does, and it
\* passes no further than the next expiry.
Tick ==
    LET d == MinRemaining(DebounceTimers, TimeStep)
        Advance(t) == IF t.armed THEN [t EXCEPT !.remaining = @ - d] ELSE t
    IN  /\ \A t \in DebounceTimers : t.readyOk = 0 /\ t.readyAborted = 0
        /\ d > 0
        /\ timerVec' = [p \in DOMAIN timerVec |-> Advance(timerVec[p])]
        /\ timerChassisStatusVec' =
               [p \in DOMAIN timerChassisStatusVec |-> Advance(timerChassisStatusVec[p])]
        /\ sinceSignal' = [p \in DOMAIN sinceSignal |-> Min(sinceSignal[p] + d, DebounceSec)]
        /\ lastStep' = [NoStep EXCEPT !.op = "tick"]
        /\ callbacks' = <<>>
        /\ UNCHANGED <<powerStatusOn, biosHasPost, chassisStatusOn, powerMatchVec,
                       postMatchVec, chassisMatchVec>>

\* ------------------------------------------------------ refresh and setup
\* getPowerStatus, getPostStatus, getChassisStatus: size_t retries = 2, and the
\* 15 seconds of the timer before a retry.
Retries == 2
RetrySec == 15

Kinds == {"power", "post", "chassis"}

\* The path a refresh of a kind and slot asks for and looks up.
QueryPath(kind, slot) == IF kind = "chassis" THEN ChassisPath(slot) ELSE HostPath(slot)

\* One async_method_call chain.  stage: "query" (the call is in flight),
\* "wait" (the retry timer is armed, for backoff seconds), "expired" (its
\* handler is queued).  attempts is history: the calls made so far.
Chain(kind, slot, retries, attempts) ==
    [kind |-> kind, slot |-> slot, retries |-> retries, attempts |-> attempts,
     stage |-> "query", backoff |-> 0]

\* get*Status(conn, slotNumber, retries): issues the method call.
getStatus(kind, slot, retries, attempts) ==
    SetToBag({Chain(kind, slot, retries, attempts)})

\* Variant of RetryAfterError that allows a third retry.
RetryAfterError_OneMore(chain) ==
    IF chain.attempts <= Retries + 1
    THEN SetToBag({[chain EXCEPT !.stage = "wait", !.backoff = RetrySec]})
    ELSE EmptyBag

\* The reply handler on an error: a timer and a retry while retries != 0,
\* otherwise a log line and the end of the chain.
RetryAfterError(chain) ==
    IF chain.retries # 0
    THEN SetToBag({[chain EXCEPT !.stage = "wait", !.backoff = RetrySec]})
    ELSE EmptyBag

\* What the reply handler stores for a property value of the kind.
StateOf(kind, value) ==
    IF kind = "power" THEN EndsWith(value, "Running")
    ELSE IF kind = "chassis" THEN EndsWith(value, "On")
    ELSE value # <<"Inactive">> /\ value # <<"OSStatus", "Inactive">>

ValuesOf(kind) ==
    IF kind = "power" THEN PowerValues
    ELSE IF kind = "chassis" THEN ChassisValues
    ELSE PostValues

\* The cache a refresh of this kind writes.
CacheOf(kind) ==
    IF kind = "power" THEN powerStatusOn
    ELSE IF kind = "chassis" THEN chassisStatusOn
    ELSE biosHasPost

\* The subscriber callbacks a successful reply invokes: the reply handlers
\* hold no callback and call none.
ReplyCallbacks_Notifies(kind, state) ==
    <<Callback(IF kind = "power" THEN "on"
               ELSE IF kind = "chassis" THEN "chassisOn"
               ELSE "biosPost", state)>>

ReplyCallbacks(kind, state) == <<>>

\* The reply handler of a refresh: ec is "ok" or "error".
RefreshReply(chain, ec, value) ==
    LET path == QueryPath(chain.kind, chain.slot)
        rest == refresh (-) SetToBag({chain})
        state == StateOf(chain.kind, value)
        it == findPowerStateByPath(path, CacheOf(chain.kind))
    IN  /\ chain \in BagToSet(refresh)
        /\ chain.stage = "query"
        /\ lastStep' = [NoStep EXCEPT !.op = "refreshReply", !.ec = ec, !.path = path,
                                      !.kind = chain.kind, !.slot = chain.slot,
                                      !.on = (ec = "ok" /\ state),
                                      !.retries = chain.retries,
                                      !.attempts = chain.attempts,
                                      !.changed = /\ ec = "ok"
                                                  /\ it # 0
                                                  /\ CacheOf(chain.kind)[it].second # state]
        /\ callbacks' = IF ec = "ok" THEN ReplyCallbacks(chain.kind, state) ELSE <<>>
        /\ IF ec # "ok"
           THEN /\ refresh' = rest (+) RetryAfterError(chain)
                /\ UNCHANGED <<powerStatusOn, biosHasPost, chassisStatusOn>>
           ELSE /\ refresh' = rest
                /\ powerStatusOn' =
                       IF chain.kind = "power"
                       THEN SetSecond(powerStatusOn,
                                      findPowerStateByPath(path, powerStatusOn), state)
                       ELSE powerStatusOn
                /\ biosHasPost' =
                       IF chain.kind = "post"
                       THEN SetSecond(biosHasPost,
                                      findPowerStateByPath(path, biosHasPost), state)
                       ELSE biosHasPost
                /\ chassisStatusOn' =
                       IF chain.kind = "chassis"
                       THEN SetSecond(chassisStatusOn,
                                      findPowerStateByPath(path, chassisStatusOn), state)
                       ELSE chassisStatusOn
        /\ UNCHANGED <<powerMatchVec, postMatchVec, chassisMatchVec, timerVec,
                       timerChassisStatusVec, sinceSignal, crashed, discovery>>

\* The io_context finds the retry timer expired and queues its handler.
RefreshTimerExpire(chain) ==
    /\ chain \in BagToSet(refresh)
    /\ chain.stage = "wait"
    /\ refresh' = (refresh (-) SetToBag({chain}))
                      (+) SetToBag({[chain EXCEPT !.stage = "expired"]})
    /\ lastStep' = [NoStep EXCEPT !.op = "refreshExpire", !.kind = chain.kind,
                                  !.slot = chain.slot, !.retries = chain.retries,
                                  !.attempts = chain.attempts]
    /\ callbacks' = <<>>
    /\ UNCHANGED <<powerStatusOn, biosHasPost, chassisStatusOn, powerMatchVec,
                   postMatchVec, chassisMatchVec, timerVec, timerChassisStatusVec,
                   sinceSignal, crashed, discovery>>

\* The wait handler of the retry timer: get*Status(conn, slotNumber, retries - 1).
RefreshRetry(chain) ==
    /\ chain \in BagToSet(refresh)
    /\ chain.stage = "expired"
    /\ refresh' = (refresh (-) SetToBag({chain}))
                      (+) getStatus(chain.kind, chain.slot, chain.retries - 1,
                                    chain.attempts + 1)
    /\ lastStep' = [NoStep EXCEPT !.op = "refreshRetry", !.kind = chain.kind,
                                  !.slot = chain.slot, !.since = chain.backoff,
                                  !.retries = chain.retries - 1,
                                  !.attempts = chain.attempts + 1,
                                  !.issued = TRUE]
    /\ callbacks' = <<>>
    /\ UNCHANGED <<powerStatusOn, biosHasPost, chassisStatusOn, powerMatchVec,
                   postMatchVec, chassisMatchVec, timerVec, timerChassisStatusVec,
                   sinceSignal, crashed, discovery>>

\* std::stoi on the trailing numeral of a discovered path: a path without one
\* (kept as a negative numeral) makes it throw std::invalid_argument.
SlotNumberOf(path) == IF path[2] >= 0 THEN Returns(path[2]) ELSE Throws

\* The static state before setupPowerMatchCallback, as one record.
\* powerMatch: the static unique_ptr is not null; timers: the steady_timers
\* the two timer vectors hold.
EmptyRegistry ==
    [powerStatusOn |-> <<>>, biosHasPost |-> <<>>, chassisStatusOn |-> <<>>,
     powerMatchVec |-> <<>>, postMatchVec |-> <<>>, chassisMatchVec |-> <<>>,
     timerVec |-> <<>>, timerChassisStatusVec |-> <<>>,
     refresh |-> EmptyBag, threw |-> FALSE, powerMatch |-> FALSE, timers |-> 0]

\* The loop over hostSubTreePaths; it ends where std::stoi throws.  powerMatch
\* is assigned the new match and then moved into powerMatchVec, which leaves
\* it null.
RECURSIVE RegisterHosts(_, _)
RegisterHosts(paths, st) ==
    IF paths = <<>> THEN st
    ELSE LET path == Head(paths)
             slotNumber == SlotNumberOf(path)
         IN  IF slotNumber.throws THEN [st EXCEPT !.threw = TRUE]
             ELSE RegisterHosts(Tail(paths),
                      [st EXCEPT
                          !.powerStatusOn = Append(@, [first |-> path, second |-> FALSE]),
                          !.biosHasPost = Append(@, [first |-> path, second |-> FALSE]),
                          !.timerVec = (path :> IdleTimer) @@ @,
                          !.timers = @ + 1,
                          !.powerMatch = FALSE,
                          !.powerMatchVec = Append(@, [first |-> path]),
                          !.postMatchVec = Append(@, [first |-> path]),
                          !.refresh = @ (+) getStatus("power", slotNumber.value, Retries, 1)
                                        (+) getStatus("post", slotNumber.value, Retries, 1)])

\* The loop over chassisSubTreePaths: the cache entry is added before std::stoi.
RECURSIVE RegisterChassis(_, _)
RegisterChassis(paths, st) ==
    IF paths = <<>> THEN st
    ELSE LET path == Head(paths)
             slotNumber == SlotNumberOf(path)
             cached == [st EXCEPT
                           !.chassisStatusOn = Append(@, [first |-> path, second |-> FALSE])]
         IN  IF slotNumber.throws THEN [cached EXCEPT !.threw = TRUE]
             ELSE RegisterChassis(Tail(paths),
                      [cached EXCEPT
                          !.timerChassisStatusVec = (path :> IdleTimer) @@ @,
                          !.timers = @ + 1,
                          !.chassisMatchVec = Append(@, [first |-> path]),
                          !.refresh = @ (+) getStatus("chassis", slotNumber.value,
                                                      Retries, 1)])

\* setupPowerMatchCallback on the mapper's two answers.
setupPowerMatchCallback(st, hostEnum, chassisEnum) ==
    IF st.powerMatch THEN st
    ELSE IF ~hostEnum.ok THEN st
    ELSE LET hosts == RegisterHosts(hostEnum.paths, st)
         IN  IF hosts.threw \/ ~chassisEnum.ok THEN hosts
             ELSE RegisterChassis(chassisEnum.paths, hosts)

NoDiscovery ==
    [called |-> FALSE, host |-> [ok |-> FALSE, paths |-> <<>>],
     chassis |-> [ok |-> FALSE, paths |-> <<>>], calls |-> 0, timers |-> 0]

\* The program's call of setupPowerMatchCallback at startup.
Setup(hostEnum, chassisEnum) ==
    LET st == setupPowerMatchCallback(EmptyRegistry, hostEnum, chassisEnum)
    IN  /\ ~discovery.called
        /\ discovery' = [called |-> TRUE, host |-> hostEnum, chassis |-> chassisEnum,
                         calls |-> 1, timers |-> st.timers]
        /\ powerStatusOn' = st.powerStatusOn
        /\ biosHasPost' = st.biosHasPost
        /\ chassisStatusOn' = st.chassisStatusOn
        /\ powerMatchVec' = st.powerMatchVec
        /\ postMatchVec' = st.postMatchVec
        /\ chassisMatchVec' = st.chassisMatchVec
        /\ timerVec' = st.timerVec
        /\ timerChassisStatusVec' = st.timerChassisStatusVec
        /\ sinceSignal' = [p \in DOMAIN st.timerVec \cup DOMAIN st.timerChassisStatusVec
                               |-> DebounceSec]
        /\ refresh' = st.refresh
        /\ crashed' = st.threw
        /\ lastStep' = [NoStep EXCEPT !.op = "setup"]
        /\ callbacks' = <<>>

\* The static state a later call of setupPowerMatchCallback finds.
CurrentRegistry ==
    [powerStatusOn |-> powerStatusOn, biosHasPost |-> biosHasPost,
     chassisStatusOn |-> chassisStatusOn, powerMatchVec |-> powerMatchVec,
     postMatchVec |-> postMatchVec, chassisMatchVec |-> chassisMatchVec,
     timerVec |-> timerVec, timerChassisStatusVec |-> timerChassisStatusVec,
     refresh |-> refresh, threw |-> FALSE, powerMatch |-> FALSE,
     timers |-> discovery.timers]

\* A second call of setupPowerMatchCallback, by another sensor daemon routine.
SetupAgain(hostEnum, chassisEnum) ==
    LET st == setupPowerMatchCallback(CurrentRegistry, hostEnum, chassisEnum)
    IN  /\ discovery.calls = 1
        /\ discovery' = [discovery EXCEPT !.calls = 2, !.timers = st.timers]
        /\ powerStatusOn' = st.powerStatusOn
        /\ biosHasPost' = st.biosHasPost
        /\ chassisStatusOn' = st.chassisStatusOn
        /\ powerMatchVec' = st.powerMatchVec
        /\ postMatchVec' = st.postMatchVec
        /\ chassisMatchVec' = st.chassisMatchVec
        /\ timerVec' = st.timerVec
        /\ timerChassisStatusVec' = st.timerChassisStatusVec
        /\ sinceSignal' = [p \in DOMAIN st.timerVec \cup DOMAIN st.timerChassisStatusVec
                               |-> DebounceSec]
        /\ refresh' = st.refresh
        /\ crashed' = st.threw
        /\ lastStep' = [NoStep EXCEPT !.op = "setupAgain"]
        /\ callbacks' = <<>>

\* ------------------------------------------------------------ PSUSensor
\* Published values are exact multiples of 1/Scale; NaN is its own value.
Scale == 2 * 2
Num(n) == [nan |-> FALSE, v |-> n]
NaN == [nan |-> TRUE, v |-> 0]

\* The bytes a read can deliver.
Digits == {"0", "5"}
DigitValue(c) == IF c = "0" THEN 0 ELSE 5
Whitespace == {"\n"}
Chars == Digits \cup Whitespace \cup {"-", "x"}
NUL == "NUL"

\* std::array<char, 128>, shortened: MaxLen payload bytes and the terminator.
BufferSize == MaxLen + 1
EmptyBuffer == [i \in 1..BufferSize |-> NUL]

\* bufferRef[bytesRead] = '\0' (C++ indexes from 0).
Terminate(buf, bytesRead) == [buf EXCEPT ![bytesRead + 1] = NUL]

\* The C string at buf.data(): the bytes before the first NUL.
RECURSIVE CString(_, _)
CString(buf, i) ==
    IF i > Len(buf) \/ buf[i] = NUL THEN <<>>
    ELSE <<buf[i]>> \o CString(buf, i + 1)

RECURSIVE SkipSpace(_)
SkipSpace(str) ==
    IF str # <<>> /\ Head(str) \in Whitespace THEN SkipSpace(Tail(str)) ELSE str

RECURSIVE DigitRun(_, _, _)
DigitRun(str, acc, count) ==
    IF str # <<>> /\ Head(str) \in Digits
    THEN DigitRun(Tail(str), 10 * acc + DigitValue(Head(str)), count + 1)
    ELSE [value |-> acc, count |-> count]

\* std::stod on decimal integers: leading whitespace, an optional sign, the
\* longest digit run; what follows is ignored; no digit: invalid_argument.
stod(str) ==
    LET body == SkipSpace(str)
        negative == body # <<>> /\ Head(body) = "-"
        run == DigitRun(IF negative THEN Tail(body) ELSE body, 0, 0)
    IN  IF run.count = 0 THEN [invalid |-> TRUE, value |-> 0]
        ELSE [invalid |-> FALSE, value |-> IF negative THEN 0 - run.value ELSE run.value]

\* (rawValue / sensorFactor) + sensorOffset, in units of 1/Scale.
Convert(s, raw) == (raw * Scale) \div s.sensorFactor + s.sensorOffset * Scale

\* Sensor::readingStateGood(): the free function on the sensor's requirement and slot.
SensorReadingStateGood(s) == readingStateGood(s.readState, s.slotId).value

\* Sensor::markAvailable.
markAvailable(s, isAvailable) == [s EXCEPT !.available = isAvailable]

Clamp(s, v) ==
    IF v < s.minValue * Scale THEN s.minValue * Scale
    ELSE IF v > s.maxValue * Scale THEN s.maxValue * Scale
    ELSE v

\* The threshold levels, the less severe first.
Levels == <<"warningLow", "warningHigh", "criticalLow", "criticalHigh">>
IsHigh(level) == level \in {"warningHigh", "criticalHigh"}

Threshold(level, value, hysteresis) ==
    [level |-> level, value |-> value * Scale, hysteresis |-> hysteresis * Scale,
     asserted |-> FALSE,
     \* history: the asserted value of the last event emitted for it
     lastEvent |-> "none"]

TransitionEvent(level, asserted) == [level |-> level, asserted |-> asserted]

\* ThresholdEngine, one threshold: a high level asserts at or above its value
\* and deasserts below value - hysteresis; a low level mirrors this.
AssertedAfter(t, v) ==
    IF IsHigh(t.level)
    THEN (IF v >= t.value THEN TRUE
          ELSE IF v < t.value - t.hysteresis THEN FALSE
          ELSE t.asserted)
    ELSE (IF v <= t.value THEN TRUE
          ELSE IF v > t.value + t.hysteresis THEN FALSE
          ELSE t.asserted)

\* The engine emits an event for a threshold only where its state flips.
Flips(t, v) == AssertedAfter(t, v) # t.asserted

\* The events of the thresholds from index i on that are of one level.
RECURSIVE EventsOfLevel(_, _, _, _)
EventsOfLevel(thresholds, v, level, i) ==
    IF i > Len(thresholds) THEN <<>>
    ELSE LET t == thresholds[i]
         IN  (IF t.level = level /\ Flips(t, v)
              THEN <<TransitionEvent(level, AssertedAfter(t, v))>>
              ELSE <<>>) \o EventsOfLevel(thresholds, v, level, i + 1)

\* The list of TransitionEvent{level, asserted} evaluate returns, the levels
\* in their order of evaluation.
RECURSIVE transitions(_, _, _)
transitions(thresholds, v, l) ==
    IF l > Len(Levels) THEN <<>>
    ELSE EventsOfLevel(thresholds, v, Levels[l], 1) \o transitions(thresholds, v, l + 1)

\* ThresholdEngine evaluate(sensorThresholds, newValue): the state it leaves
\* in the thresholds.
evaluate(thresholds, v) ==
    [i \in DOMAIN thresholds |->
        LET t == thresholds[i]
        IN  [t EXCEPT !.asserted = AssertedAfter(t, v),
                      !.lastEvent = IF Flips(t, v)
                                    THEN (IF AssertedAfter(t, v) THEN "asserted"
                                          ELSE "deasserted")
                                    ELSE @]]

\* Variant of checkThresholds with the power-state test inverted.
checkThresholds_InvertedGate(s) ==
    IF SensorReadingStateGood(s) THEN s
    ELSE [s EXCEPT !.thresholds = evaluate(@, s.value.v),
                   !.events = @ \o transitions(s.thresholds, s.value.v, 1)]

\* Variant of checkThresholds that publishes the engine's events twice.
checkThresholds_PublishesTwice(s) ==
    IF ~SensorReadingStateGood(s) THEN s
    ELSE [s EXCEPT !.thresholds = evaluate(@, s.value.v),
                   !.events = @ \o transitions(s.thresholds, s.value.v, 1)
                                \o transitions(s.thresholds, s.value.v, 1)]

\* Variant of checkThresholds without the power-state test.
checkThresholds_Ungated(s) ==
    [s EXCEPT !.thresholds = evaluate(@, s.value.v),
              !.events = @ \o transitions(s.thresholds, s.value.v, 1)]

\* PSUSensor::checkThresholds: the engine runs and its events are published.
checkThresholds(s) ==
    IF ~SensorReadingStateGood(s) THEN s
    ELSE [s EXCEPT !.thresholds = evaluate(@, s.value.v),
                   !.events = @ \o transitions(s.thresholds, s.value.v, 1)]

\* Sensor::updateValue: clamp to [min, max], publish, clear the error counter,
\* check the thresholds.
updateValue(s, newValue) ==
    IF newValue.nan
    THEN [s EXCEPT !.value = NaN, !.out = Append(@, NaN)]
    ELSE checkThresholds([s EXCEPT !.value = Num(Clamp(s, newValue.v)),
                                   !.out = Append(@, Num(Clamp(s, newValue.v))),
                                   !.errCount = 0])

\* Sensor::incrementError.
incrementError(s) == [s EXCEPT !.errCount = @ + 1]

\* ------------------------------------------------------------ associations
\* Object paths are kept as their components below the inventory root.
\* fs::path::parent_path: the path without its last component.
parent_path(p) == IF p = <<>> THEN <<>> ELSE SubSeq(p, 1, Len(p) - 1)

SystemItem == "xyz.openbmc_project.Inventory.Item.System"
BoardItem == "xyz.openbmc_project.Inventory.Item.Board"
ChassisItem == "xyz.openbmc_project.Inventory.Item.Chassis"

\* One entry of GetSubTreeType: the object and, per service, its interfaces.
SubTreeEntry(obj, interfaces) ==
    [obj |-> obj, services |-> <<[service |-> "EntityManager", interfaces |-> interfaces]>>]

Association(forward, reverse, target) ==
    [forward |-> forward, reverse |-> reverse, path |-> target]

\* The association interface the constructor adds, and the GetSubTree call
\* createInventoryAssoc sends from there.
NewAssociation == [pending |-> TRUE, initialized |-> FALSE, associations |-> <<>>]

\* register_property("Associations", ...) and initialize().
setInventoryAssociation(association, inventoryPath, chassisPath) ==
    [association EXCEPT
        !.associations = <<Association("inventory", "sensors", inventoryPath),
                           Association("chassis", "all_sensors", chassisPath)>>,
        !.initialized = TRUE]

\* std::optional<std::string>.
Nullopt == [has |-> FALSE, value |-> <<>>]
Optional(v) == [has |-> TRUE, value |-> v]
value_or(opt, default) == IF opt.has THEN opt.value ELSE default

\* std::find over the interfaces of every service of an entry.
ExposesSystem(entry) ==
    \E i \in DOMAIN entry.services :
        \E j \in DOMAIN entry.services[i].interfaces :
            entry.services[i].interfaces[j] = SystemItem

\* The second loop of findContainingChassis, from index i on.
RECURSIVE FirstSystem(_, _)
FirstSystem(subtree, i) ==
    IF i > Len(subtree) THEN Nullopt
    ELSE IF ExposesSystem(subtree[i]) THEN Optional(subtree[i].obj)
    ELSE FirstSystem(subtree, i + 1)

\* Variant of findContainingChassis that takes the first entry that is the
\* parent or exposes System, in one pass.
RECURSIVE FirstParentOrSystem(_, _, _)
FirstParentOrSystem(configParent, subtree, i) ==
    IF i > Len(subtree) THEN Nullopt
    ELSE IF subtree[i].obj = configParent \/ ExposesSystem(subtree[i])
         THEN Optional(subtree[i].obj)
    ELSE FirstParentOrSystem(configParent, subtree, i + 1)

findContainingChassis_OnePass(configParent, subtree) ==
    FirstParentOrSystem(configParent, subtree, 1)

findContainingChassis(configParent, subtree) ==
    IF \E i \in DOMAIN subtree : subtree[i].obj = configParent
    THEN Optional(configParent)
    ELSE FirstSystem(subtree, 1)

\* Variant of the GetSubTree reply handler that publishes nothing on an error.
inventoryReply_DropsError(association, path, ec, subtree) ==
    LET parent == parent_path(path)
    IN  IF ec # "ok" THEN association
        ELSE setInventoryAssociation(association, parent,
                 value_or(findContainingChassis(parent, subtree), parent))

\* The reply handler of createInventoryAssoc's GetSubTree call.
inventoryReply(association, path, ec, subtree) ==
    LET parent == parent_path(path)
    IN  IF ec # "ok" THEN setInventoryAssociation(association, parent, parent)
        ELSE setInventoryAssociation(association, parent,
                 value_or(findContainingChassis(parent, subtree), parent))

\* waitTimer.expires_after(sensorPollMs); waitTimer.async_wait(...).
restartRead(s) ==
    [s EXCEPT !.waitTimer = TimerRearm(@, s.sensorPollMs), !.armed = TRUE]

\* The queued completions of the file are a bag of (error code, bytes read);
\* delivered is history: the bytes the kernel wrote for this read.
Completion(ec, bytesRead, delivered) ==
    SetToBag({[ec |-> ec, bytesRead |-> bytesRead, delivered |-> delivered]})

\* inputDev.async_read_some_at: on an open file the read goes to the kernel;
\* on a closed one it completes with bad_file_descriptor.
AsyncReadSomeAt(s) ==
    IF s.inputDev
    THEN [s EXCEPT !.readsInFlight = @ + 1, !.issued = TRUE]
    ELSE [s EXCEPT !.readReady = @ (+) Completion("bad_file_descriptor", 0, <<>>),
                   !.issued = TRUE]

\* Variant of setupRead that does not look at the power state.
setupRead_Ungated(s) == AsyncReadSomeAt(s)

setupRead(s) ==
    IF ~SensorReadingStateGood(s)
    THEN restartRead(updateValue(markAvailable(s, FALSE), NaN))
    ELSE AsyncReadSomeAt(s)

\* Variant of handleResponse that gives up after a failed or empty read.
handleResponse_NoRetryOnError(s, err, bytesRead) ==
    IF err = "operation_aborted" THEN s
    ELSE IF err \in {"bad_file_descriptor", "not_found"} THEN [s EXCEPT !.sawGone = TRUE]
    ELSE IF err # "ok" \/ bytesRead = 0 THEN s
    ELSE LET buf == Terminate(s.buffer, bytesRead)
             parsed == stod(CString(buf, 1))
             t == [s EXCEPT !.buffer = buf]
         IN  IF parsed.invalid
             THEN restartRead(incrementError(t))
             ELSE restartRead(updateValue([t EXCEPT !.rawValue = parsed.value],
                                          Num(Convert(t, parsed.value))))

\* Variant of handleResponse that forgets the offset.
handleResponse_NoOffset(s, err, bytesRead) ==
    IF err = "operation_aborted" THEN s
    ELSE IF err \in {"bad_file_descriptor", "not_found"} THEN [s EXCEPT !.sawGone = TRUE]
    ELSE IF err # "ok" \/ bytesRead = 0 THEN restartRead(s)
    ELSE LET buf == Terminate(s.buffer, bytesRead)
             parsed == stod(CString(buf, 1))
             t == [s EXCEPT !.buffer = buf]
         IN  IF parsed.invalid
             THEN restartRead(incrementError(t))
             ELSE restartRead(updateValue([t EXCEPT !.rawValue = parsed.value],
                                          Num((parsed.value * Scale) \div t.sensorFactor)))

\* Variant of handleResponse that publishes NaN after a failed or empty read.
handleResponse_NaNOnError(s, err, bytesRead) ==
    IF err = "operation_aborted" THEN s
    ELSE IF err \in {"bad_file_descriptor", "not_found"} THEN [s EXCEPT !.sawGone = TRUE]
    ELSE IF err # "ok" \/ bytesRead = 0 THEN restartRead(updateValue(s, NaN))
    ELSE LET buf == Terminate(s.buffer, bytesRead)
             parsed == stod(CString(buf, 1))
             t == [s EXCEPT !.buffer = buf]
         IN  IF parsed.invalid
             THEN restartRead(incrementError(t))
             ELSE restartRead(updateValue([t EXCEPT !.rawValue = parsed.value],
                                          Num(Convert(t, parsed.value))))

\* Variant of handleResponse that reports an unparsable payload as NaN.
handleResponse_NaNOnInvalid(s, err, bytesRead) ==
    IF err = "operation_aborted" THEN s
    ELSE IF err \in {"bad_file_descriptor", "not_found"} THEN [s EXCEPT !.sawGone = TRUE]
    ELSE IF err # "ok" \/ bytesRead = 0 THEN restartRead(s)
    ELSE LET buf == Terminate(s.buffer, bytesRead)
             parsed == stod(CString(buf, 1))
             t == [s EXCEPT !.buffer = buf]
         IN  IF parsed.invalid
             THEN restartRead(updateValue(incrementError(t), NaN))
             ELSE restartRead(updateValue([t EXCEPT !.rawValue = parsed.value],
                                          Num(Convert(t, parsed.value))))

handleResponse(s, err, bytesRead) ==
    IF err = "operation_aborted" THEN s
    ELSE IF err \in {"bad_file_descriptor", "not_found"} THEN [s EXCEPT !.sawGone = TRUE]
    ELSE IF err # "ok" \/ bytesRead = 0 THEN restartRead(s)
    ELSE LET buf == Terminate(s.buffer, bytesRead)
             parsed == stod(CString(buf, 1))
             t == [s EXCEPT !.buffer = buf]
         IN  IF parsed.invalid
             THEN restartRead(incrementError(t))
             ELSE restartRead(updateValue([t EXCEPT !.rawValue = parsed.value],
                                          Num(Convert(t, parsed.value))))

\* inputDev.close(): the reads in flight complete with operation_aborted.
RECURSIVE Aborted(_)
Aborted(n) ==
    IF n = 0 THEN EmptyBag
    ELSE Completion("operation_aborted", 0, <<>>) (+) Aborted(n - 1)

CloseInputDev(s) ==
    [s EXCEPT !.inputDev = FALSE, !.readsInFlight = 0,
              !.readReady = @ (+) Aborted(s.readsInFlight)]

isActive(s) == s.inputDev

\* Variant of activate without the isActive() guard.
activate_Unguarded(s, newPath, newI2CDevice) ==
    setupRead(markAvailable([s EXCEPT !.path = newPath,
                                      !.i2cDevice = newI2CDevice,
                                      !.inputDev = TRUE], TRUE))

activate(s, newPath, newI2CDevice) ==
    IF isActive(s) THEN s
    ELSE setupRead(markAvailable([s EXCEPT !.path = newPath,
                                           !.i2cDevice = newI2CDevice,
                                           !.inputDev = TRUE], TRUE))

\* Variant of deactivate that leaves the wait timer alone.
deactivate_KeepsTimer(s) ==
    LET closed == CloseInputDev(markAvailable(s, FALSE))
    IN  [closed EXCEPT !.i2cDevice = "nullptr", !.path = ""]

deactivate(s) ==
    LET closed == CloseInputDev(markAvailable(s, FALSE))
    IN  [closed EXCEPT !.waitTimer = TimerCancel(@), !.i2cDevice = "nullptr", !.path = ""]

\* PSUSensor::~PSUSensor: deactivate(), then the interfaces are removed and
\* the members are destroyed; weak references to the object expire.
destroy(s) == [deactivate(s) EXCEPT !.interfaces = FALSE, !.alive = FALSE]

\* Variant of readHandler that does not test the weak reference.
readHandler_NoLock(s, ec, bytesRead) == handleResponse(s, ec, bytesRead)

\* The completion handler setupRead() installs: weak.lock(), and
\* handleResponse on the object if it is still there.
readHandler(s, ec, bytesRead) ==
    IF ~s.alive THEN s ELSE handleResponse(s, ec, bytesRead)

\* Variant of waitHandler that starts a cycle after an aborted wait too.
waitHandler_IgnoresAbort(s, ec) == IF ~s.alive THEN s ELSE setupRead(s)

\* The wait handler restartRead() installs.
waitHandler(s, ec) ==
    IF ec = "aborted" THEN s
    ELSE IF ~s.alive THEN s
    ELSE setupRead(s)

\* The state the constructor leaves: the file open, nothing read yet.
NewSensor(factor, offset, min, max, readState, slotId) ==
    [ inputDev |-> TRUE, path |-> "hwmonA", i2cDevice |-> "devA",
      available |-> TRUE, value |-> NaN, rawValue |-> 0, errCount |-> 0,
      buffer |-> EmptyBuffer, readsInFlight |-> 0, readReady |-> EmptyBag,
      waitTimer |-> IdleTimer,
      sensorFactor |-> factor, sensorOffset |-> offset,
      minValue |-> min, maxValue |-> max, sensorPollMs |-> 1000,
      readState |-> readState, slotId |-> slotId, thresholds |-> <<>>,
      configurationPath |-> <<"system", "board0", "psu0">>,
      association |-> NewAssociation,
      \* the object server holds the sensor's interfaces; the object exists
      interfaces |-> TRUE, alive |-> TRUE,
      \* what the running step did: filled in by the operations, cleared by Commit
      out |-> <<>>, issued |-> FALSE, armed |-> FALSE, sawGone |-> FALSE,
      events |-> <<>> ]

\* The step's bookkeeping fields, cleared.
Fresh(s) ==
    [s EXCEPT !.out = <<>>, !.issued = FALSE, !.armed = FALSE, !.sawGone = FALSE,
              !.events = <<>>]

WithinBounds(s) ==
    /\ s.readsInFlight + BagCardinality(s.readReady) <= MaxReads
    /\ s.waitTimer.readyAborted <= MaxQueued
    /\ s.waitTimer.readyOk <= MaxQueued
    /\ s.errCount <= MaxErr

NoRead == [ec |-> "none", bytesRead |-> 0, delivered |-> <<>>]

\* A sensor step: run the operation on the object, record what it did.
Commit(op, ec, result, reactivated, handled) ==
    /\ WithinBounds(result)
    /\ sensor' = Fresh(result)
    /\ published' = result.out
    /\ gone' = IF reactivated THEN FALSE ELSE (gone \/ result.sawGone)
    /\ lastStep' = [NoStep EXCEPT !.op = op, !.ec = ec,
                                  !.bytesRead = handled.bytesRead,
                                  !.payload = handled.delivered,
                                  !.issued = result.issued,
                                  !.armed = result.armed,
                                  !.events = result.events]
    /\ callbacks' = <<>>

\* The first setupRead() call, made by the code that constructed the sensor.
Start ==
    /\ sensor.alive
    /\ ~started
    /\ started' = TRUE
    /\ Commit("setupRead", "none", setupRead(sensor), FALSE, NoRead)
    /\ UNCHANGED deactivated

Activate(newPath, newI2CDevice) ==
    /\ sensor.alive
    /\ started
    /\ deactivated' = IF isActive(sensor) THEN deactivated ELSE FALSE
    /\ Commit("activate", "none", activate(sensor, newPath, newI2CDevice),
              ~isActive(sensor), NoRead)
    /\ UNCHANGED started

Deactivate ==
    /\ sensor.alive
    /\ started
    /\ deactivated' = TRUE
    /\ Commit("deactivate", "none", deactivate(sensor), FALSE, NoRead)
    /\ UNCHANGED started

\* The owner drops the last shared_ptr to the sensor: the destructor runs.
Destroy ==
    /\ sensor.alive
    /\ started
    /\ deactivated' = TRUE
    /\ Commit("destroy", "none", destroy(sensor), FALSE, NoRead)
    /\ UNCHANGED started

\* The kernel completes a read in flight: the bytes land in the buffer and the
\* completion is queued with its error code.
ReadComplete(ec, payload) ==
    /\ sensor.readsInFlight > 0
    /\ ec # "ok" => payload = <<>>
    /\ sensor' = [sensor EXCEPT
           !.readsInFlight = @ - 1,
           !.buffer = [i \in 1..BufferSize |->
                          IF i <= Len(payload) THEN payload[i] ELSE @[i]],
           !.readReady = @ (+) Completion(ec, Len(payload), payload)]
    /\ lastStep' = [NoStep EXCEPT !.op = "readComplete", !.ec = ec]
    /\ published' = <<>>
    /\ callbacks' = <<>>
    /\ UNCHANGED <<started, deactivated, gone>>

\* The io_context invokes a queued read completion.
HandleResponse(c) ==
    /\ c \in BagToSet(sensor.readReady)
    /\ LET rest == [sensor EXCEPT !.readReady = @ (-) Completion(c.ec, c.bytesRead, c.delivered)]
       IN  Commit("handleResponse", c.ec, readHandler(rest, c.ec, c.bytesRead), FALSE, c)
    /\ UNCHANGED <<started, deactivated>>

\* The io_context finds the wait expired and queues its handler.
WaitExpire ==
    /\ sensor.waitTimer.armed
    /\ sensor.waitTimer.readyOk < MaxQueued
    /\ sensor' = [sensor EXCEPT !.waitTimer = TimerExpired(@)]
    /\ lastStep' = [NoStep EXCEPT !.op = "waitExpire"]
    /\ published' = <<>>
    /\ callbacks' = <<>>
    /\ UNCHANGED <<started, deactivated, gone>>

\* The io_context invokes a queued wait handler.
WaitHandler(ec) ==
    /\ IF ec = "aborted" THEN sensor.waitTimer.readyAborted > 0
                          ELSE sensor.waitTimer.readyOk > 0
    /\ LET rest == [sensor EXCEPT
                       !.waitTimer = IF ec = "aborted"
                                     THEN [@ EXCEPT !.readyAborted = @ - 1]
                                     ELSE [@ EXCEPT !.readyOk = @ - 1]]
       IN  Commit("waitHandler", ec, waitHandler(rest, ec), FALSE, NoRead)
    /\ UNCHANGED <<started, deactivated>>

\* The io_context invokes the reply handler of the GetSubTree call.
InventoryReply(ec, subtree) ==
    /\ sensor.association.pending
    /\ sensor' = [sensor EXCEPT
           !.association = [inventoryReply(@, sensor.configurationPath, ec, subtree)
                               EXCEPT !.pending = FALSE]]
    /\ lastStep' = [NoStep EXCEPT !.op = "inventoryReply", !.ec = ec,
                                  !.subtree = subtree]
    /\ published' = <<>>
    /\ callbacks' = <<>>
    /\ UNCHANGED <<started, deactivated, gone>>

\* ------------------------------------------------------- specifications
ErrorCodes == {"ok", "aborted"}
ReadResults == {"ok", "io_error", "bad_file_descriptor", "not_found"}

trackerState == <<powerStatusOn, biosHasPost, chassisStatusOn, powerMatchVec,
                  postMatchVec, chassisMatchVec, timerVec, timerChassisStatusVec,
                  sinceSignal>>

\* The step just taken processed a report of the host or chassis power
\* state: a property-changed signal that carries it or a successful reply.
StateReport ==
    \/ lastStep'.op \in {"powerSignal", "chassisSignal"}
    \/ /\ lastStep'.op = "refreshReply"
       /\ lastStep'.ec = "ok"
       /\ lastStep'.kind \in {"power", "chassis"}

\* History: every step notes the report it processed.
NoteReport ==
    lastReport' = IF StateReport
                  THEN (lastStep'.path :> (IF lastStep'.on THEN "on" ELSE "off"))
                           @@ lastReport
                  ELSE lastReport

\* A tracker step leaves the sensor alone; a sensor step leaves the tracker alone.
TrackerStep(A) ==
    /\ A
    /\ published' = <<>>
    /\ NoteReport
    /\ UNCHANGED <<sensor, started, deactivated, gone, setupVars>>
\* Variant of SensorStep in which an operation of the sensor clears the
\* cached host-power states.
SensorStep_ClearsPower(A) ==
    /\ A
    /\ powerStatusOn' = [i \in DOMAIN powerStatusOn |->
                             [powerStatusOn[i] EXCEPT !.second = FALSE]]
    /\ UNCHANGED <<biosHasPost, chassisStatusOn, powerMatchVec, postMatchVec,
                   chassisMatchVec, timerVec, timerChassisStatusVec, sinceSignal,
                   setupVars, lastReport>>

SensorStep(A) == A /\ UNCHANGED <<trackerState, setupVars, lastReport>>

SensorInit(s) ==
    /\ sensor = s
    /\ started = FALSE
    /\ deactivated = FALSE
    /\ gone = FALSE
    /\ published = <<>>

\* The signals the environment sends: host power for one slot, chassis power
\* for the other, POST for both.
PowerSignalSlots == {0}
ChassisSignalSlots == {1}

PowerNext ==
    \/ \E slot \in PowerSignalSlots, present \in BOOLEAN, value \in PowerValues :
           TrackerStep(PowerMatchHandler(slot, present, value))
    \/ \E slot \in ChassisSignalSlots, present \in BOOLEAN, value \in ChassisValues :
           TrackerStep(ChassisMatchHandler(slot, present, value))
    \/ \E slot \in Slots, present \in BOOLEAN, value \in PostValues :
           TrackerStep(PostMatchHandler(slot, present, value))
    \/ \E slot \in Slots, ec \in ErrorCodes : TrackerStep(PowerDebounceHandler(slot, ec))
    \/ \E slot \in Slots, ec \in ErrorCodes : TrackerStep(ChassisDebounceHandler(slot, ec))
    \/ \E path \in HostPathSet \cup ChassisPathSet : TrackerStep(DebounceExpire(path))
    \/ TrackerStep(Tick)

\* The tracker on its own, the sensor constructed and never started.
SpecPower ==
    /\ TrackerInitial(StatePairs(HostPaths))
    /\ SensorInit(NewSensor(2, 0, 0, 100, "biosPost", 0))
    /\ [][PowerNext]_vars

\* The polling loop of one sensor that needs POST, on a host that is powered
\* on: reads complete with any result, the sensor is deactivated and
\* activated at any time, POST comes and goes.
HostOn(slot) ==
    [i \in DOMAIN HostPaths |->
        [first |-> HostPaths[i], second |-> HostPaths[i] = HostPath(slot)]]

SensorPayloads == { <<"5", "0">>, <<>> }
Devices == { <<"hwmonB", "devB">> }

SensorNext ==
    \/ SensorStep(Start)
    \/ \E d \in Devices : SensorStep(Activate(d[1], d[2]))
    \/ SensorStep(Deactivate)
    \/ \E ec \in ReadResults, payload \in SensorPayloads :
           SensorStep(ReadComplete(ec, payload))
    \/ \E c \in BagToSet(sensor.readReady) : SensorStep(HandleResponse(c))
    \/ SensorStep(WaitExpire)
    \/ \E ec \in ErrorCodes : SensorStep(WaitHandler(ec))
    \/ \E value \in {<<"Inactive">>, <<"OSStatus", "Standby">>} :
           TrackerStep(PostMatchHandler(0, TRUE, value))

SpecSensor ==
    /\ TrackerInitial(HostOn(0))
    /\ SensorInit(NewSensor(2, 0, 0, 100, "biosPost", 0))
    /\ [][SensorNext]_vars

\* One sensor that needs no power state, with any configuration, polling a
\* file that delivers any bytes or any error; nobody deactivates it.
RECURSIVE Strings(_)
Strings(n) ==
    IF n = 0 THEN {<<>>}
    ELSE LET shorter == Strings(n - 1)
         IN  shorter \cup {Append(str, c) : str \in shorter, c \in Chars}

\* (factor, offset, min, max): every pair of factor, offset and range occurs.
Configs == { <<4, 3, 0 - 2, 10>>, <<2, 0, 0 - 2, 10>>,
             <<4, 0, 0, 100>>, <<2, 3, 0, 100>> }

ReadNext ==
    \/ SensorStep(Start)
    \/ \E ec \in ReadResults, payload \in Strings(MaxLen) :
           SensorStep(ReadComplete(ec, payload))
    \/ \E c \in BagToSet(sensor.readReady) : SensorStep(HandleResponse(c))
    \/ SensorStep(WaitExpire)
    \/ \E ec \in ErrorCodes : SensorStep(WaitHandler(ec))

SpecRead ==
    /\ TrackerInitial(StatePairs(HostPaths))
    /\ \E c \in Configs : SensorInit(NewSensor(c[1], c[2], c[3], c[4], "always", 0))
    /\ [][ReadNext]_vars

\* The polling loop of SpecRead's sensor under the scheduling the io_context
\* gives the wait timer: a wait that is armed expires, and its queued handler
\* is invoked.
LoopPayloads == { <<"5", "0">>, <<"5">>, <<>> }

LoopNext ==
    \/ SensorStep(Start)
    \/ \E ec \in ReadResults, payload \in LoopPayloads :
           SensorStep(ReadComplete(ec, payload))
    \/ \E c \in BagToSet(sensor.readReady) : SensorStep(HandleResponse(c))
    \/ SensorStep(WaitExpire)
    \/ \E ec \in ErrorCodes : SensorStep(WaitHandler(ec))

LoopFairness ==
    /\ WF_vars(SensorStep(WaitExpire))
    /\ WF_vars(\E ec \in ErrorCodes : SensorStep(WaitHandler(ec)))

SpecLoop ==
    /\ TrackerInitial(StatePairs(HostPaths))
    /\ \E c \in Configs : SensorInit(NewSensor(c[1], c[2], c[3], c[4], "always", 0))
    /\ [][LoopNext]_vars
    /\ LoopFairness

\* The life of one sensor that needs POST and has a high warning threshold
\* up to its end: it polls, reads complete with any result, it is deactivated
\* and it is destroyed at any time, while POST comes and goes.
LifePayloads == { <<"5", "0">>, <<"5">>, <<>> }

LifeNext ==
    \/ SensorStep(Start)
    \/ SensorStep(Deactivate)
    \/ SensorStep(Destroy)
    \/ \E ec \in ReadResults, payload \in LifePayloads :
           SensorStep(ReadComplete(ec, payload))
    \/ \E c \in BagToSet(sensor.readReady) : SensorStep(HandleResponse(c))
    \/ SensorStep(WaitExpire)
    \/ \E ec \in ErrorCodes : SensorStep(WaitHandler(ec))
    \/ \E value \in {<<"Inactive">>, <<"OSStatus", "Standby">>} :
           TrackerStep(PostMatchHandler(0, TRUE, value))

SpecLife ==
    /\ TrackerInitial(HostOn(0))
    /\ SensorInit([NewSensor(2, 0, 0, 100, "biosPost", 0)
                       EXCEPT !.thresholds = <<Threshold("warningHigh", 10, 2)>>])
    /\ [][LifeNext]_vars

\* What the mapper may answer: a failed call, no object, objects with and
\* without a trailing numeral.
NoNumeral == 0 - 1
Failed == [ok |-> FALSE, paths |-> <<>>]
Found(paths) == [ok |-> TRUE, paths |-> paths]

HostEnums ==
    { Failed, Found(<<>>), Found(<<HostPath(0)>>), Found(<<HostPath(1)>>),
      Found(<<HostPath(0), HostPath(NoNumeral)>>) }
ChassisEnums ==
    { Failed, Found(<<ChassisPath(0)>>), Found(<<ChassisPath(1)>>),
      Found(<<ChassisPath(NoNumeral), ChassisPath(0)>>) }

\* A step of setup or of a refresh chain leaves the sensor alone; nothing runs
\* after an exception has left the setup.
SetupStep(A) ==
    /\ ~crashed
    /\ A
    /\ published' = <<>>
    /\ NoteReport
    /\ UNCHANGED <<sensor, started, deactivated, gone>>

SetupNext ==
    \/ \E hostEnum \in HostEnums, chassisEnum \in ChassisEnums :
           SetupStep(Setup(hostEnum, chassisEnum))
    \/ \E chain \in BagToSet(refresh), ec \in {"ok", "error"} :
           \E value \in ValuesOf(chain.kind) : SetupStep(RefreshReply(chain, ec, value))
    \/ \E chain \in BagToSet(refresh) : SetupStep(RefreshTimerExpire(chain))
    \/ \E chain \in BagToSet(refresh) : SetupStep(RefreshRetry(chain))

\* The tracker from program start: the setup call, then the refresh chains.
BeforeSetup(st) ==
    /\ powerStatusOn = st.powerStatusOn
    /\ biosHasPost = st.biosHasPost
    /\ chassisStatusOn = st.chassisStatusOn
    /\ powerMatchVec = st.powerMatchVec
    /\ postMatchVec = st.postMatchVec
    /\ chassisMatchVec = st.chassisMatchVec
    /\ timerVec = st.timerVec
    /\ timerChassisStatusVec = st.timerChassisStatusVec
    /\ sinceSignal = <<>>
    /\ lastStep = NoStep
    /\ callbacks = <<>>
    /\ refresh = st.refresh
    /\ lastReport = <<>>
    /\ crashed = st.threw
    /\ discovery = NoDiscovery

SpecSetup ==
    /\ BeforeSetup(EmptyRegistry)
    /\ SensorInit(NewSensor(2, 0, 0, 100, "biosPost", 0))
    /\ [][SetupNext]_vars

\* A sensor that is started and deactivated and never activated again, while
\* POST comes and goes.  The io_context runs every queued handler, every
\* armed timer expires and every read in flight completes.
QuiesceNext ==
    \/ SensorStep(Start)
    \/ ~deactivated /\ SensorStep(Deactivate)
    \/ \E ec \in ReadResults, payload \in LifePayloads :
           SensorStep(ReadComplete(ec, payload))
    \/ \E c \in BagToSet(sensor.readReady) : SensorStep(HandleResponse(c))
    \/ SensorStep(WaitExpire)
    \/ \E ec \in ErrorCodes : SensorStep(WaitHandler(ec))
    \/ \E value \in {<<"Inactive">>, <<"OSStatus", "Standby">>} :
           TrackerStep(PostMatchHandler(0, TRUE, value))

\* Every read in flight completes, every queued completion is handled (the
\* queue of completions is empty again and again), the armed wait expires and
\* its queued handler runs.
QuiesceFairness ==
    /\ WF_vars(\E ec \in ReadResults, payload \in LifePayloads :
                   SensorStep(ReadComplete(ec, payload)))
    /\ []<>(sensor.readReady = EmptyBag)
    /\ WF_vars(SensorStep(WaitExpire))
    /\ WF_vars(\E ec \in ErrorCodes : SensorStep(WaitHandler(ec)))

SpecQuiesce ==
    /\ TrackerInitial(HostOn(0))
    /\ SensorInit(NewSensor(2, 0, 0, 100, "biosPost", 0))
    /\ [][QuiesceNext]_vars
    /\ QuiesceFairness

\* The tracker of host 0 and chassis 1 while the queries of the setup are
\* still unanswered: signals, debounce expiries and the replies interleave.
RefreshNext ==
    \/ \E value \in PowerValues : TrackerStep(PowerMatchHandler(0, TRUE, value))
    \/ \E value \in ChassisValues : TrackerStep(ChassisMatchHandler(1, TRUE, value))
    \/ \E value \in PostValues : TrackerStep(PostMatchHandler(0, TRUE, value))
    \/ \E ec \in ErrorCodes : TrackerStep(PowerDebounceHandler(0, ec))
    \/ \E ec \in ErrorCodes : TrackerStep(ChassisDebounceHandler(1, ec))
    \/ \E path \in {HostPath(0), ChassisPath(1)} : TrackerStep(DebounceExpire(path))
    \/ TrackerStep(Tick)
    \/ \E chain \in BagToSet(refresh) :
           \E value \in ValuesOf(chain.kind) : SetupStep(RefreshReply(chain, "ok", value))

SpecRefresh ==
    /\ TrackerRefreshing(StatePairs(HostPaths),
                         getStatus("power", 0, Retries, 1)
                             (+) getStatus("post", 0, Retries, 1)
                             (+) getStatus("chassis", 1, Retries, 1))
    /\ SensorInit(NewSensor(2, 0, 0, 100, "biosPost", 0))
    /\ [][RefreshNext]_vars

\* The setup called twice: each call is given any answer of the mapper.
ResetupNext ==
    \/ \E hostEnum \in HostEnums, chassisEnum \in ChassisEnums :
           SetupStep(Setup(hostEnum, chassisEnum))
    \/ \E hostEnum \in HostEnums, chassisEnum \in ChassisEnums :
           SetupStep(SetupAgain(hostEnum, chassisEnum))

SpecResetup ==
    /\ BeforeSetup(EmptyRegistry)
    /\ SensorInit(NewSensor(2, 0, 0, 100, "biosPost", 0))
    /\ [][ResetupNext]_vars

\* One sensor that needs host power next to the tracker of its slot: the
\* sensor's operations interleave with host power signals, debounce expiries
\* and the reply to the setup's host power query.  The owner activates the
\* sensor when no handler of it is queued.
FramePayloads == { <<"5", "0">> }

HandlersDrained(s) ==
    /\ s.readReady = EmptyBag
    /\ s.waitTimer.readyOk = 0
    /\ s.waitTimer.readyAborted = 0

FrameNext ==
    \/ SensorStep(Start)
    \/ \E d \in Devices : HandlersDrained(sensor) /\ SensorStep(Activate(d[1], d[2]))
    \/ SensorStep(Deactivate)
    \/ SensorStep(Destroy)
    \/ \E payload \in FramePayloads : SensorStep(ReadComplete("ok", payload))
    \/ \E c \in BagToSet(sensor.readReady) : SensorStep(HandleResponse(c))
    \/ SensorStep(WaitExpire)
    \/ \E ec \in ErrorCodes : SensorStep(WaitHandler(ec))
    \/ \E value \in {<<"HostState", "Running">>, <<"HostState", "Off">>} :
           TrackerStep(PowerMatchHandler(0, TRUE, value))
    \/ \E ec \in ErrorCodes : TrackerStep(PowerDebounceHandler(0, ec))
    \/ TrackerStep(DebounceExpire(HostPath(0)))
    \/ TrackerStep(Tick)
    \/ \E chain \in BagToSet(refresh), value \in PowerValues :
           SetupStep(RefreshReply(chain, "ok", value))

SpecFrame ==
    /\ TrackerRefreshing(StatePairs(HostPaths), getStatus("power", 0, Retries, 1))
    /\ SensorInit([NewSensor(2, 0, 0, 100, "on", 0)
                       EXCEPT !.thresholds = <<Threshold("warningHigh", 10, 2)>>])
    /\ [][FrameNext]_vars

\* Sensor::updateValue called with a reading, as handleResponse calls it.
UpdateValue(v) ==
    /\ Commit("updateValue", "none", updateValue(sensor, Num(v)), FALSE, NoRead)
    /\ UNCHANGED <<started, deactivated>>

\* The readings fed to the engine, and the thresholds a sensor is configured
\* with: (low value, high value, hysteresis).
MaxReading == 14
Readings == {v * Scale : v \in 0..MaxReading}
ThresholdConfigs == { <<3, 10, 2>>, <<2, 10, 4>>, <<4, 12, 2>>,
                      <<3, 12, 4>>, <<5, 11, 2>>, <<4, 10, 4>> }

ThresholdsOf(c) ==
    <<Threshold("warningLow", c[1], c[3]), Threshold("warningHigh", c[2], c[3])>>

ThresholdNext == \E v \in Readings : SensorStep(UpdateValue(v))

\* The threshold engine of one sensor that needs no power state, fed any
\* sequence of readings.
SpecThreshold ==
    /\ TrackerInitial(StatePairs(HostPaths))
    /\ \E c \in ThresholdConfigs :
           SensorInit([NewSensor(1, 0, 0, 100, "always", 0)
                           EXCEPT !.thresholds = ThresholdsOf(c)])
    /\ [][ThresholdNext]_vars

\* Entries the mapper may return and the length of its answer.
MaxSubtree == 3
InventoryObjects ==
    { SubTreeEntry(<<"system", "board0">>, <<BoardItem>>),
      SubTreeEntry(<<"system", "chassis1">>, <<ChassisItem>>),
      SubTreeEntry(<<"system", "sysA">>, <<ChassisItem, SystemItem>>),
      SubTreeEntry(<<"system", "sysB">>, <<SystemItem>>) }

RECURSIVE SubTrees(_)
SubTrees(n) ==
    IF n = 0 THEN {<<>>}
    ELSE LET shorter == SubTrees(n - 1)
         IN  shorter \cup {Append(t, e) : t \in shorter, e \in InventoryObjects}

\* Configurations below a board, below a System object and below an object
\* the mapper does not return.
ConfigurationPaths ==
    { <<"system", "board0", "psu0">>, <<"system", "sysB", "psu0">>,
      <<"system", "other", "psu0">> }

AssocNext ==
    \E ec \in {"ok", "error"}, subtree \in SubTrees(MaxSubtree) :
        /\ ec # "ok" => subtree = <<>>
        /\ SensorStep(InventoryReply(ec, subtree))

\* The association of one sensor: the constructor has sent the GetSubTree
\* call, and the mapper answers anything.
SpecAssoc ==
    /\ TrackerInitial(StatePairs(HostPaths))
    /\ \E path \in ConfigurationPaths :
           SensorInit([NewSensor(2, 0, 0, 100, "always", 0)
                           EXCEPT !.configurationPath = path])
    /\ [][AssocNext]_vars

\* ---------------------------------------------------- tracker properties
\* The cached state of a path, read straight from the vector.
CachedState(vec, path) == \E i \in DOMAIN vec : vec[i].first = path /\ vec[i].second

DebounceTimerOf(path) ==
    IF path \in DOMAIN timerVec THEN timerVec[path] ELSE timerChassisStatusVec[path]

DebouncedCache(path) ==
    IF path \in DOMAIN timerVec THEN CachedState(powerStatusOn, path)
    ELSE CachedState(chassisStatusOn, path)

OffSignalStep == lastStep.op \in {"powerSignal", "chassisSignal"} /\ ~lastStep.on
OnSignalStep == lastStep.op \in {"powerSignal", "chassisSignal"} /\ lastStep.on
DebounceAppliedStep ==
    lastStep.op \in {"powerDebounce", "chassisDebounce"} /\ lastStep.ec = "ok"
DebounceAbortedStep ==
    lastStep.op \in {"powerDebounce", "chassisDebounce"} /\ lastStep.ec = "aborted"

\* C4: an "off" signal sets the cached state false in its own step and cancels
\* the debounce wait, and the cached state is set true only when 10 seconds
\* have passed since the last signal of that slot and kind: a debounce armed
\* before an "off" never sets the cache true after the "off".
C4_OffImmediateOnAfterQuietWindow ==
    /\ OffSignalStep =>
           /\ ~DebouncedCache(lastStep.path)
           /\ ~DebounceTimerOf(lastStep.path).armed
    /\ DebounceAppliedStep => lastStep.since >= DebounceSec

\* C5: the callback gets false in the step of the "off" signal, and gets true
\* only from the expiry of the debounce that the latest "on" signal armed,
\* 10 seconds after it, with no cancel or re-arm in between; an aborted wait
\* calls nothing.
C5_CallbackOnlyFromUncancelledDebounce ==
    /\ OffSignalStep =>
           callbacks = <<Callback(IF lastStep.op = "powerSignal" THEN "on" ELSE "chassisOn",
                                  FALSE)>>
    /\ OnSignalStep => callbacks = <<>>
    /\ DebounceAbortedStep => callbacks = <<>>
    /\ \A i \in DOMAIN callbacks :
           (callbacks[i].type \in {"on", "chassisOn"} /\ callbacks[i].state) =>
               DebounceAppliedStep /\ lastStep.since >= DebounceSec

\* C6: a signal that arrives while a debounce is pending cancels it: after an
\* "on" exactly one debounce is pending, with its full window ahead, after an
\* "off" none is, and never more than one is pending for a slot and kind.
C6_AtMostOneDebouncePending ==
    /\ \A path \in HostPathSet \cup ChassisPathSet :
           PendingDebounces(DebounceTimerOf(path)) <= 1
    /\ OnSignalStep =>
           /\ PendingDebounces(DebounceTimerOf(lastStep.path)) = 1
           /\ DebounceTimerOf(lastStep.path).armed
           /\ DebounceTimerOf(lastStep.path).remaining = DebounceSec
    /\ OffSignalStep => PendingDebounces(DebounceTimerOf(lastStep.path)) = 0

\* C7: readingStateGood(biosPost) is true exactly when the cached host-power
\* state and the cached POST state of the slot are both true.
C7_BiosPostNeedsPowerAndPost ==
    \A slot \in Slots :
        readingStateGood("biosPost", slot) =
            Returns(CachedState(powerStatusOn, HostPath(slot))
                    /\ CachedState(biosHasPost, HostPath(slot)))

\* Slot 0 is powered and in POST, slot 1 is not in POST: slot 0 reads, and the
\* answer is per slot.
C7_Witness ==
    /\ CachedState(powerStatusOn, HostPath(0))
    /\ CachedState(biosHasPost, HostPath(0))
    /\ ~CachedState(biosHasPost, HostPath(1))
    /\ readingStateGood("biosPost", 0).value

\* C8: requirement on gives the cached host-power state, chassisOn the cached
\* chassis-power state, always gives true.
C8_RequirementSelectsCache ==
    \A slot \in Slots :
        /\ readingStateGood("on", slot) = Returns(CachedState(powerStatusOn, HostPath(slot)))
        /\ readingStateGood("chassisOn", slot) =
               Returns(CachedState(chassisStatusOn, ChassisPath(slot)))
        /\ readingStateGood("always", slot) = Returns(TRUE)

C8_Witness ==
    /\ CachedState(powerStatusOn, HostPath(0))
    /\ ~CachedState(chassisStatusOn, ChassisPath(0))
    /\ CachedState(chassisStatusOn, ChassisPath(1))
    /\ ~CachedState(powerStatusOn, HostPath(1))
    /\ readingStateGood("on", 0).value
    /\ readingStateGood("chassisOn", 1).value

\* ----------------------------------------------------- sensor properties
\* The payload starts, after whitespace and an optional sign, with a digit.
ParsesToNumber(payload) ==
    \E i \in DOMAIN payload :
        /\ payload[i] \in Digits
        /\ \A j \in 1..(i - 2) : payload[j] \in Whitespace
        /\ i > 1 => payload[i - 1] \in Whitespace \cup {"-"}

\* clamp((x / factor) + offset, min, max) in units of 1/Scale.
ExpectedValue(x) ==
    LET v == (x * Scale) \div sensor.sensorFactor + sensor.sensorOffset * Scale
        lo == sensor.minValue * Scale
        hi == sensor.maxValue * Scale
    IN  IF v < lo THEN lo ELSE IF v > hi THEN hi ELSE v

ParsedReadStep ==
    /\ lastStep.op = "handleResponse"
    /\ lastStep.ec = "ok"
    /\ lastStep.bytesRead > 0
    /\ ParsesToNumber(lastStep.payload)

\* C1: a read whose payload parses to x publishes clamp((x / factor) + offset,
\* min, max), and nothing else.
C1_PublishedIsClampedConversion ==
    ParsedReadStep =>
        /\ published = <<Num(ExpectedValue(stod(lastStep.payload).value))>>
        /\ sensor.value = Num(ExpectedValue(stod(lastStep.payload).value))

\* "50" with factor 4, offset 3 is 15.5, clamped to the maximum 10.
C1_Witness ==
    /\ ParsedReadStep
    /\ lastStep.payload = <<"5", "0">>
    /\ sensor.sensorFactor = 4
    /\ sensor.sensorOffset = 3
    /\ sensor.maxValue = 10
    /\ published = <<Num(10 * Scale)>>

\* C2: once deactivate has returned, no reading is published until the sensor
\* is activated again, also when a read had completed before deactivate ran
\* and its handler runs after.
C2_NoPublishAfterDeactivate ==
    deactivated => \A i \in DOMAIN published : published[i].nan

\* C3: at most one read is in flight, and the wait timer is not armed while a
\* read is in flight.
C3_AtMostOneReadOutstanding ==
    /\ sensor.readsInFlight <= 1
    /\ ~(sensor.waitTimer.armed /\ sensor.readsInFlight > 0)

UnparsableReadStep ==
    /\ lastStep.op = "handleResponse"
    /\ lastStep.ec = "ok"
    /\ lastStep.bytesRead > 0
    /\ ~ParsesToNumber(lastStep.payload)

\* C9: a successful read of an unparsable payload leaves the published value
\* as it was, publishes nothing and adds exactly 1 to the error counter.
C9_UnparsableCountsOneError ==
    [][UnparsableReadStep' =>
           /\ sensor'.value = sensor.value
           /\ published' = <<>>
           /\ sensor'.errCount = sensor.errCount + 1]_vars

\* A value was published before, and the unparsable read left it there.
C9_Witness ==
    /\ UnparsableReadStep
    /\ sensor.errCount = 1
    /\ ~sensor.value.nan

\* C10: after a read ended device-gone, no step other than activate issues a
\* read or arms the wait timer.
C10_LoopStopsAfterDeviceGone ==
    [][(gone /\ lastStep'.op # "activate") =>
           (~lastStep'.issued /\ ~lastStep'.armed)]_vars

DeviceGoneStep ==
    /\ lastStep.op = "handleResponse"
    /\ lastStep.ec \in {"bad_file_descriptor", "not_found"}

\* C11: after a read ended device-gone (bad file descriptor or not-found), the
\* sensor is marked unavailable.
C11_DeviceGoneMarksUnavailable ==
    DeviceGoneStep => ~sensor.available

\* A read completion was handled and it was neither device-gone nor aborted.
CycleEndedStep ==
    /\ lastStep.op = "handleResponse"
    /\ lastStep.ec \notin {"bad_file_descriptor", "not_found", "operation_aborted"}

CycleStarts ==
    \/ lastStep'.op = "setupRead"
    \/ lastStep'.op = "waitHandler" /\ lastStep'.ec = "ok"
    \/ lastStep'.op = "activate" /\ ~isActive(sensor)

\* C13: a cycle that starts while readingStateGood is false issues no read,
\* marks the sensor unavailable, publishes NaN and arms the wait timer.
C13_GatedCycleSkipsRead ==
    [][(CycleStarts /\ ~SensorReadingStateGood(sensor)) =>
           /\ ~lastStep'.issued
           /\ sensor'.readsInFlight = sensor.readsInFlight
           /\ sensor'.readReady = sensor.readReady
           /\ ~sensor'.available
           /\ published' = <<NaN>>
           /\ sensor'.value = NaN
           /\ lastStep'.armed
           /\ sensor'.waitTimer.armed]_vars

\* A wait handler found POST inactive after a reading had been published.
C13_Witness ==
    /\ lastStep.op = "waitHandler"
    /\ lastStep.ec = "ok"
    /\ ~SensorReadingStateGood(sensor)
    /\ sensor.rawValue = 50
    /\ published = <<NaN>>
    /\ ~sensor.available
    /\ sensor.waitTimer.armed
    /\ sensor.readsInFlight = 0

C15_DeactivateIdempotent ==
    [][lastStep'.op = "deactivate" =>
           /\ ~sensor'.waitTimer.armed
           /\ ~isActive(sensor')
           /\ sensor'.readsInFlight = 0
           /\ sensor'.i2cDevice = "nullptr"
           /\ sensor'.path = ""
           /\ ~sensor'.available
           /\ Fresh(deactivate(sensor')) = sensor'
           /\ lastStep.op = "deactivate" => sensor' = sensor]_vars

\* deactivate found a wait pending and cancelled it.
C15_Witness ==
    /\ lastStep.op = "deactivate"
    /\ sensor.waitTimer.readyAborted = 1
    /\ ~sensor.waitTimer.armed
    /\ ~isActive(sensor)
    /\ sensor.i2cDevice = "nullptr"

\* ------------------------------------------------------ setup properties
\* A subscription for the path is in the vector.
Registered(matchVec, path) == \E i \in DOMAIN matchVec : matchVec[i].first = path

\* C16: a query for a kind and slot with no subscription fails with the
\* not-initialized error; with a subscription it returns the cached value.
C16_QueryNeedsSubscription ==
    \A slot \in QuerySlots :
        /\ isPowerOn(slot) =
               IF Registered(powerMatchVec, HostPath(slot))
               THEN Returns(CachedState(powerStatusOn, HostPath(slot))) ELSE Throws
        /\ hasBiosPost(slot) =
               IF Registered(postMatchVec, HostPath(slot))
               THEN Returns(CachedState(biosHasPost, HostPath(slot))) ELSE Throws
        /\ isChassisOn(slot) =
               IF Registered(chassisMatchVec, ChassisPath(slot))
               THEN Returns(CachedState(chassisStatusOn, ChassisPath(slot))) ELSE Throws

\* Host 0 is subscribed and cached on, no chassis is subscribed.
C16_Witness ==
    /\ discovery.called
    /\ Registered(powerMatchVec, HostPath(0))
    /\ isPowerOn(0) = Returns(TRUE)
    /\ hasBiosPost(0) = Returns(FALSE)
    /\ isPowerOn(1) = Throws
    /\ chassisMatchVec = <<>>
    /\ isChassisOn(0) = Throws

ChainsOf(chains, kind, slot) ==
    {c \in BagToSet(chains) : c.kind = kind /\ c.slot = slot}

\* C17: a refresh makes at most 3 queries, the second and third only from the
\* handler of a 15-second timer armed after a failed reply; the third failure
\* ends the chain, and no failed reply changes a cached value, which is then
\* still false.
C17_RefreshRetriesTwice ==
    [][/\ \A c \in BagToSet(refresh') :
              /\ c.attempts <= 3
              /\ c.attempts + c.retries = 3
              /\ c.stage # "query" => c.backoff = 15
       /\ (lastStep'.op = "refreshReply" /\ lastStep'.ec = "error") =>
              /\ powerStatusOn' = powerStatusOn
              /\ biosHasPost' = biosHasPost
              /\ chassisStatusOn' = chassisStatusOn
              /\ IF lastStep'.attempts = 3
                 THEN /\ ChainsOf(refresh', lastStep'.kind, lastStep'.slot) = {}
                      /\ ~CachedState(CacheOf(lastStep'.kind), lastStep'.path)
                 ELSE \E c \in ChainsOf(refresh', lastStep'.kind, lastStep'.slot) :
                          c.stage = "wait"
       /\ lastStep'.op = "refreshRetry" =>
              /\ lastStep'.since = 15
              /\ \E c \in ChainsOf(refresh, lastStep'.kind, lastStep'.slot) :
                     c.stage = "expired" /\ c.attempts = lastStep'.attempts - 1
       /\ lastStep'.op \notin {"setup", "refreshRetry"} =>
              \A c \in BagToSet(refresh') :
                  c.stage = "query" => c \in BagToSet(refresh)]_vars

\* The third query of a refresh failed and its chain is over.
C17_Witness ==
    /\ lastStep.op = "refreshReply"
    /\ lastStep.ec = "error"
    /\ lastStep.attempts = 3
    /\ lastStep.retries = 0
    /\ ChainsOf(refresh, lastStep.kind, lastStep.slot) = {}
    /\ ~CachedState(CacheOf(lastStep.kind), lastStep.path)

AllParse(enum) == \A i \in DOMAIN enum.paths : enum.paths[i][2] >= 0

\* C18: the kinds are set up independently and no failure leaves the setup as
\* an exception: whatever happened to the host objects, the chassis objects
\* the mapper returned are subscribed, and the other way round.
C18_KindsSetUpIndependently ==
    discovery.called =>
        /\ ~crashed
        /\ (discovery.chassis.ok /\ AllParse(discovery.chassis)) =>
               \A i \in DOMAIN discovery.chassis.paths :
                   Registered(chassisMatchVec, discovery.chassis.paths[i])
        /\ (discovery.host.ok /\ AllParse(discovery.host)) =>
               \A i \in DOMAIN discovery.host.paths :
                   /\ Registered(powerMatchVec, discovery.host.paths[i])
                   /\ Registered(postMatchVec, discovery.host.paths[i])

\* C19: whenever the sensor is unavailable its published value is NaN, and no
\* step publishes a number while leaving the sensor unavailable.
C19_UnavailableMeansNaN ==
    /\ ~sensor.available => sensor.value.nan
    /\ \A i \in DOMAIN published : ~published[i].nan => sensor.available

\* -------------------------------------------------- threshold properties
\* The asserted flags after feeding the readings of values, in order.
RECURSIVE AfterReadings(_, _)
AfterReadings(s, values) ==
    IF values = <<>> THEN <<>>
    ELSE LET next == updateValue(s, Num(Head(values)))
         IN  <<[i \in DOMAIN next.thresholds |-> next.thresholds[i].asserted]>>
                 \o AfterReadings(next, Tail(values))

EventsFor(level) == SelectSeq(lastStep'.events, LAMBDA e : e.level = level)

LinkTarget(forward) ==
    LET links == SelectSeq(sensor.association.associations,
                           LAMBDA a : a.forward = forward)
    IN  IF Len(links) = 1 THEN Optional(links[1].path) ELSE Nullopt

ReturnedObjects(subtree) == {subtree[i].obj : i \in DOMAIN subtree}

\* The first returned object with the System interface, if there is one.
IsFirstSystem(subtree, obj) ==
    \E i \in DOMAIN subtree :
        /\ subtree[i].obj = obj
        /\ SystemItem \in {subtree[i].services[1].interfaces[j] :
                               j \in DOMAIN subtree[i].services[1].interfaces}
        /\ \A k \in 1..(i - 1) :
               SystemItem \notin {subtree[k].services[1].interfaces[j] :
                                      j \in DOMAIN subtree[k].services[1].interfaces}

\* C22: after a successful inventory query the inventory link targets the
\* immediate parent; the chassis link targets the parent if it is among the
\* returned objects, also when a System object comes earlier in the result,
\* otherwise the first returned System object, otherwise the parent.
C22_ChassisLinkPrefersParent ==
    (lastStep.op = "inventoryReply" /\ lastStep.ec = "ok") =>
        LET parent == parent_path(sensor.configurationPath)
            subtree == lastStep.subtree
            chassis == LinkTarget("chassis")
        IN  /\ LinkTarget("inventory") = Optional(parent)
            /\ chassis.has
            /\ IF parent \in ReturnedObjects(subtree) THEN chassis.value = parent
               ELSE IF \E i \in DOMAIN subtree : ExposesSystem(subtree[i])
                    THEN IsFirstSystem(subtree, chassis.value)
               ELSE chassis.value = parent

\* The parent board came second in the result, after a System object.
C22_Witness ==
    /\ lastStep.op = "inventoryReply"
    /\ lastStep.ec = "ok"
    /\ Len(lastStep.subtree) >= 2
    /\ ExposesSystem(lastStep.subtree[1])
    /\ lastStep.subtree[2].obj = parent_path(sensor.configurationPath)
    /\ LinkTarget("chassis") = Optional(<<"system", "board0">>)

\* C23: after a failed inventory query the association is published with the
\* inventory link and the chassis link both at the immediate parent, and the
\* interface is initialized.
C23_QueryFailureFallsBackToParent ==
    (lastStep.op = "inventoryReply" /\ lastStep.ec # "ok") =>
        LET parent == parent_path(sensor.configurationPath)
        IN  /\ sensor.association.initialized
            /\ Len(sensor.association.associations) = 2
            /\ LinkTarget("inventory") = Optional(parent)
            /\ LinkTarget("chassis") = Optional(parent)

\* The query of a sensor below an object the mapper does not know failed.
C23_Witness ==
    /\ lastStep.op = "inventoryReply"
    /\ lastStep.ec = "error"
    /\ sensor.configurationPath = <<"system", "other", "psu0">>
    /\ sensor.association.initialized
    /\ LinkTarget("chassis") = Optional(<<"system", "other">>)

\* ---------------------------------------------------- lifetime properties
\* The sensor as the step found it, but for the queued handler the step took.
SameButQueues(before, after) ==
    [after EXCEPT !.readReady = before.readReady,
                  !.waitTimer.readyOk = before.waitTimer.readyOk,
                  !.waitTimer.readyAborted = before.waitTimer.readyAborted] = before

CallbackStep == lastStep'.op \in {"handleResponse", "waitHandler"}

\* C24: a read completion or wait handler that runs after the sensor was
\* destroyed touches no sensor state, publishes nothing and issues no read
\* and no timer.
C24_CallbackAfterDestroyIsNoOp ==
    [][(CallbackStep /\ ~sensor.alive) =>
           /\ SameButQueues(sensor, sensor')
           /\ published' = <<>>
           /\ lastStep'.events = <<>>
           /\ ~lastStep'.issued
           /\ ~lastStep'.armed
           /\ sensor'.readsInFlight = 0
           /\ ~sensor'.waitTimer.armed]_vars

\* A read had delivered "50" before the sensor was destroyed, POST is active,
\* and its handler ran after the destruction.
C24_Witness ==
    /\ lastStep.op = "handleResponse"
    /\ lastStep.ec = "ok"
    /\ lastStep.payload = <<"5", "0">>
    /\ ~sensor.alive
    /\ SensorReadingStateGood(sensor)
    /\ published = <<>>

AbortedStep ==
    \/ lastStep'.op = "handleResponse" /\ lastStep'.ec = "operation_aborted"
    \/ lastStep'.op = "waitHandler" /\ lastStep'.ec = "aborted"

\* C25: a read completion or a wait handler that reports operation_aborted
\* publishes nothing, changes neither the value nor the error counter, and
\* neither arms the wait timer nor issues a read.
C25_AbortEndsChain ==
    [][AbortedStep =>
           /\ published' = <<>>
           /\ lastStep'.events = <<>>
           /\ sensor'.value = sensor.value
           /\ sensor'.errCount = sensor.errCount
           /\ sensor'.available = sensor.available
           /\ ~lastStep'.issued
           /\ ~lastStep'.armed
           /\ sensor'.readsInFlight = sensor.readsInFlight
           /\ sensor'.waitTimer.armed = sensor.waitTimer.armed
           /\ sensor'.waitTimer.remaining = sensor.waitTimer.remaining]_vars

\* The wait of a living sensor was cancelled by deactivate, its handler ran
\* while POST was active, and nothing is armed or in flight.
C25_Witness ==
    /\ lastStep.op = "waitHandler"
    /\ lastStep.ec = "aborted"
    /\ sensor.alive
    /\ SensorReadingStateGood(sensor)
    /\ ~sensor.waitTimer.armed
    /\ sensor.readsInFlight = 0

TransientStep ==
    /\ lastStep.op = "handleResponse"
    /\ \/ lastStep.ec = "io_error"
       \/ lastStep.ec = "ok" /\ lastStep.bytesRead = 0

\* C26: a read that ends with a transient error or with zero bytes leaves the
\* published value as it was, publishes nothing and arms the wait timer for
\* the poll interval; a next read is issued after it.
C26_TransientErrorKeepsValueAndRetries ==
    /\ [][TransientStep' =>
              /\ sensor'.value = sensor.value
              /\ published' = <<>>
              /\ sensor'.available = sensor.available
              /\ lastStep'.armed
              /\ sensor'.waitTimer.armed
              /\ sensor'.waitTimer.remaining = sensor.sensorPollMs]_vars
    /\ (TransientStep ~> lastStep.issued)

\* A value had been published, and a read that delivered no byte left it and
\* armed the timer.
C26_Witness ==
    /\ TransientStep
    /\ lastStep.ec = "ok"
    /\ lastStep.bytesRead = 0
    /\ ~sensor.value.nan
    /\ sensor.waitTimer.armed

\* C27: every read that ends with a transient I/O error or with zero bytes
\* adds one to the error counter.
C27_TransientErrorCounts ==
    [][TransientStep' => sensor'.errCount = sensor.errCount + 1]_vars

\* The state signals of the three kinds.
StateSignals == {"powerSignal", "chassisSignal", "postSignal"}

\* The cached value a signal of the kind is about, before and after the step.
SignalCache(op, path) ==
    IF op = "powerSignal" THEN CachedState(powerStatusOn, path)
    ELSE IF op = "chassisSignal" THEN CachedState(chassisStatusOn, path)
    ELSE CachedState(biosHasPost, path)

SignalCacheAfter(op, path) ==
    IF op = "powerSignal" THEN CachedState(powerStatusOn', path)
    ELSE IF op = "chassisSignal" THEN CachedState(chassisStatusOn', path)
    ELSE CachedState(biosHasPost', path)

\* C28: for host power, chassis power and POST alike, the step of an "on" or
\* "active" signal leaves the cached value as it was, the cached value is set
\* true only by a debounce expiry 10 seconds after the signal, and the step
\* of an "off" or "inactive" signal sets it false.
C28_OnDebouncedForEveryKind ==
    [][/\ lastStep'.op \in StateSignals =>
              IF lastStep'.on
              THEN SignalCacheAfter(lastStep'.op, lastStep'.path) =
                       SignalCache(lastStep'.op, lastStep'.path)
              ELSE ~SignalCacheAfter(lastStep'.op, lastStep'.path)
       /\ DebounceAppliedStep' => lastStep'.since >= DebounceSec]_vars

\* ------------------------------------------------------ frame properties
PowerCaches == <<powerStatusOn, biosHasPost, chassisStatusOn>>

SensorOperations ==
    {"setupRead", "activate", "deactivate", "destroy", "readComplete",
     "handleResponse", "waitExpire", "waitHandler"}

CacheWriters ==
    {"powerSignal", "chassisSignal", "postSignal", "powerDebounce",
     "chassisDebounce", "refreshReply"}

\* C30: a step of the sensor (activate, deactivate, setupRead, a read
\* completion with its threshold check, a timer expiry, destruction) leaves
\* the power-state caches as they were; a step that changes them is a signal
\* handler, a debounce expiry or a refresh reply.
C30_SensorsNeverWriteCaches ==
    [][/\ lastStep'.op \in SensorOperations => PowerCaches' = PowerCaches
       /\ PowerCaches' # PowerCaches => lastStep'.op \in CacheWriters]_vars

\* With the host cached on, a read completion published a reading and
\* asserted the threshold; the cache is still on.
C30_Witness ==
    /\ lastStep.op = "handleResponse"
    /\ published = <<Num(25 * Scale)>>
    /\ lastStep.events = <<TransitionEvent("warningHigh", TRUE)>>
    /\ CachedState(powerStatusOn, HostPath(0))
    /\ refresh = EmptyBag

\* ----------------------------------------------------- repeated setup
\* C31: a second call of setupPowerMatchCallback after a setup that
\* discovered at least one host adds no cache entry, no subscription, no
\* debounce timer and no refresh query.
C31_SecondSetupAddsNothing ==
    [][(lastStep'.op = "setupAgain" /\ powerMatchVec # <<>>) =>
           /\ powerStatusOn' = powerStatusOn
           /\ biosHasPost' = biosHasPost
           /\ chassisStatusOn' = chassisStatusOn
           /\ powerMatchVec' = powerMatchVec
           /\ postMatchVec' = postMatchVec
           /\ chassisMatchVec' = chassisMatchVec
           /\ discovery'.timers = discovery.timers
           /\ refresh' = refresh]_vars

\* ---------------------------------------------------- refresh properties
\* C32: whenever the cached host-power or chassis-power state of a slot is
\* true, the report processed last for that slot and kind, signal or refresh
\* reply, gave "on".
C32_CacheTrueMeansLastReportOn ==
    \A path \in HostPathSet \cup ChassisPathSet :
        DebouncedCache(path) =>
            (path \in DOMAIN lastReport /\ lastReport[path] = "on")

\* The steps that may invoke the subscriber's callback.
NotifyingSteps ==
    {"powerSignal", "chassisSignal", "postSignal", "powerDebounce", "chassisDebounce"}

\* C33: a successful refresh reply invokes no onChange callback, even when it
\* changes the cached state; a callback is invoked only by a signal handler
\* or a debounce expiry.
C33_ReplyNeverNotifies ==
    /\ (lastStep.op = "refreshReply" /\ lastStep.ec = "ok") => callbacks = <<>>
    /\ callbacks # <<>> => lastStep.op \in NotifyingSteps

C33_Witness ==
    /\ lastStep.op = "refreshReply"
    /\ lastStep.ec = "ok"
    /\ lastStep.kind = "power"
    /\ lastStep.changed
    /\ lastStep.on
    /\ CachedState(powerStatusOn, lastStep.path)
    /\ callbacks = <<>>

\* ------------------------------------------------- read-loop liveness
\* The read loop of the sensor is live: a read is outstanding, the wait timer
\* is armed, or a completion or expiry handler is queued.
LoopLive(s) ==
    \/ s.readsInFlight > 0
    \/ s.waitTimer.armed
    \/ ~HandlersDrained(s)

\* C34: once the read loop was started, it is live in every state in which
\* the sensor is active (input source open) and alive.
C34_LoopLiveWhileActive ==
    (started /\ isActive(sensor) /\ sensor.alive) => LoopLive(sensor)

\* No read is outstanding and the wait timer is not armed.
Quiescent(s) == s.readsInFlight = 0 /\ ~s.waitTimer.armed

\* C35: after deactivate returned, with no later activate, the sensor
\* eventually reaches a quiescent state and stays in it, whatever the power
\* state and even if a handler was queued when deactivate ran.
C35_QuiescentAfterDeactivate ==
    [](deactivated => <>[]Quiescent(sensor))

\* ------------------------------------------------------ signal frame
\* The steps that process a state signal or a debounce expiry, and the kind
\* of state each of them is about.
SignalSteps ==
    {"powerSignal", "chassisSignal", "postSignal", "powerDebounce",
     "chassisDebounce", "expire"}

KindOfStep(step) ==
    IF step.op \in {"powerSignal", "powerDebounce"} THEN "power"
    ELSE IF step.op \in {"chassisSignal", "chassisDebounce"} THEN "chassis"
    ELSE IF step.op = "postSignal" THEN "post"
    ELSE IF step.path \in DOMAIN timerVec THEN "power"
    ELSE "chassis"

\* C36: a signal or a debounce expiry of one kind and slot changes only the
\* cache entry and the debounce timer of that kind and slot; the entries of
\* the other kinds and of the other slots stay as they are.
C36_SignalTouchesOnlyItsEntry ==
    [][lastStep'.op \in SignalSteps =>
          LET path == lastStep'.path
              kind == KindOfStep(lastStep')
          IN  /\ DOMAIN powerStatusOn' = DOMAIN powerStatusOn
              /\ DOMAIN biosHasPost' = DOMAIN biosHasPost
              /\ DOMAIN chassisStatusOn' = DOMAIN chassisStatusOn
              /\ DOMAIN timerVec' = DOMAIN timerVec
              /\ DOMAIN timerChassisStatusVec' = DOMAIN timerChassisStatusVec
              /\ \A i \in DOMAIN powerStatusOn :
                     (kind # "power" \/ powerStatusOn[i].first # path) =>
                         powerStatusOn'[i] = powerStatusOn[i]
              /\ \A i \in DOMAIN biosHasPost :
                     (kind # "post" \/ biosHasPost[i].first # path) =>
                         biosHasPost'[i] = biosHasPost[i]
              /\ \A i \in DOMAIN chassisStatusOn :
                     (kind # "chassis" \/ chassisStatusOn[i].first # path) =>
                         chassisStatusOn'[i] = chassisStatusOn[i]
              /\ \A p \in DOMAIN timerVec :
                     (kind # "power" \/ p # path) => timerVec'[p] = timerVec[p]
              /\ \A p \in DOMAIN timerChassisStatusVec :
                     (kind # "chassis" \/ p # path) =>
                         timerChassisStatusVec'[p] = timerChassisStatusVec[p]]_vars

\* A host-power debounce just turned one host on while another host is off,
\* a chassis is on and a POST state is active.
C36_Witness ==
    /\ lastStep.op = "powerDebounce"
    /\ lastStep.ec = "ok"
    /\ CachedState(powerStatusOn, lastStep.path)
    /\ \E q \in HostPathSet : q # lastStep.path /\ ~CachedState(powerStatusOn, q)
    /\ \E q \in ChassisPathSet : CachedState(chassisStatusOn, q)
    /\ \E q \in HostPathSet : CachedState(biosHasPost, q)

====
